---- MODULE Spec2Model ----
(***************************************************************************)
(* Model of zabbix-cli's authentication core (src/zabbix_cli/auth.py):     *)
(* credential files, the environment, the prompt, the Authenticator and    *)
(* the module-level login(); of the State singleton (state.py): configure, *)
(* the accessors, revert_config_overrides and logout; and of the table of  *)
(* exception handlers (exceptions.py).                                     *)
(*                                                                         *)
(* Text is a sequence of one-character strings, so that strip, splitlines  *)
(* and partition are computed as Python computes them.  Python's None is   *)
(* the one-element sequence None, which is no text of the alphabet.        *)
(***************************************************************************)
EXTENDS Integers, Sequences, FiniteSets, TLC

VARIABLES
    config,     \* the Config object (api.* and app.* fields, flattened)
    environ,    \* os.environ: the two credential variables
    fs,         \* the file system: path -> file
    client,     \* the ZabbixAPI client handed to the Authenticator
    op,         \* the operation that ran last, with its arguments
    out,        \* what it returned or raised, and the events it produced
    state,      \* the State singleton: repl, _client, _config, _config_repl_original
    heap,       \* the Config objects that the State's references point to
    phase       \* where the process is in its life, from start to exit

vars == <<config, environ, fs, client, op, out, state, heap, phase>>

-----------------------------------------------------------------------------
(* Text *)

None == <<"None">>

Truthy(s) == s # None /\ s # <<>>

IsSpace(c) == c \in {" ", "\n"}

IsLineBreak(c) == c = "\n"

RECURSIVE LStrip(_)
LStrip(s) ==
    IF s = <<>> THEN <<>>
    ELSE IF IsSpace(Head(s)) THEN LStrip(Tail(s)) ELSE s

RECURSIVE RStrip(_)
RStrip(s) ==
    IF s = <<>> THEN <<>>
    ELSE IF IsSpace(s[Len(s)]) THEN RStrip(SubSeq(s, 1, Len(s) - 1)) ELSE s

\* str.strip()
Strip(s) == RStrip(LStrip(s))

\* str.splitlines()[0] of a non-empty text: the text before the first line break
RECURSIVE FirstLine(_)
FirstLine(s) ==
    IF s = <<>> THEN <<>>
    ELSE IF IsLineBreak(Head(s)) THEN <<>>
    ELSE <<Head(s)>> \o FirstLine(Tail(s))

\* index of the first "::" in s, 0 if there is none
RECURSIVE FindSep(_, _)
FindSep(s, i) ==
    IF i + 1 > Len(s) THEN 0
    ELSE IF s[i] = ":" /\ s[i + 1] = ":" THEN i
    ELSE FindSep(s, i + 1)

\* str.partition("::"), without the separator: <<before, after>>
Partition(s) ==
    LET i == FindSep(s, 1)
    IN  IF i = 0 THEN <<s, <<>>>>
        ELSE <<SubSeq(s, 1, i - 1), SubSeq(s, i + 2, Len(s))>>

\* f"{username}::{secret}"
Format(username, secret) == username \o <<":", ":">> \o secret

-----------------------------------------------------------------------------
(* File modes *)

RECURSIVE BitAnd(_, _)
BitAnd(a, b) ==
    IF a = 0 \/ b = 0 THEN 0
    ELSE (a % 2) * (b % 2) + 2 * BitAnd(a \div 2, b \div 2)

SECURE_PERMISSIONS == 384   \* 0o600

PERMISSION_BITS == 511      \* 0o777

\* get_file_permissions
get_file_permissions(file) == BitAnd(file.st_mode, PERMISSION_BITS)

\* file_has_secure_permissions looking at the owner's bits only
file_has_secure_permissions_owner(file) ==
    BitAnd(get_file_permissions(file), SECURE_PERMISSIONS) = SECURE_PERMISSIONS

\* file_has_secure_permissions
file_has_secure_permissions(file) == get_file_permissions(file) = SECURE_PERMISSIONS

-----------------------------------------------------------------------------
(* Paths, files, events, results *)

AUTH_TOKEN_FILE == "AUTH_TOKEN_FILE"

AUTH_TOKEN_FILE_LEGACY == "AUTH_TOKEN_FILE_LEGACY"

AUTH_FILE == "AUTH_FILE"

AUTH_FILE_LEGACY == "AUTH_FILE_LEGACY"

\* paths a configuration may name instead of the defaults
CUSTOM_TOKEN_FILE == "custom_token_file"

CUSTOM_AUTH_FILE == "custom_auth_file"

TokenPaths == {AUTH_TOKEN_FILE, AUTH_TOKEN_FILE_LEGACY, CUSTOM_TOKEN_FILE}

AuthPaths == {AUTH_FILE, AUTH_FILE_LEGACY, CUSTOM_AUTH_FILE}

Paths == TokenPaths \cup AuthPaths

NoFile == [exists |-> FALSE, st_mode |-> 0, text |-> <<>>]

File(mode, text) == [exists |-> TRUE, st_mode |-> mode, text |-> text]

\* one observable step of an operation: ev names it, p is the path it touches,
\* x and y are the texts it carries
Ev(ev, p, x, y) == [ev |-> ev, p |-> p, x |-> x, y |-> y]

Returns(ret, trace) == [ret |-> ret, exc |-> "", trace |-> trace]

Raises(exc, trace) == [ret |-> None, exc |-> exc, trace |-> trace]

\* the events of trace named ev, in order
RECURSIVE Only(_, _)
Only(trace, ev) ==
    IF trace = <<>> THEN <<>>
    ELSE IF Head(trace).ev = ev THEN <<Head(trace)>> \o Only(Tail(trace), ev)
    ELSE Only(Tail(trace), ev)

Count(trace, ev) == Len(Only(trace, ev))

\* Path.read_text(): the owner needs the read bit (0o400)
read_text(file, path) ==
    IF BitAnd(file.st_mode, 256) = 0
    THEN Raises("PermissionError", <<Ev("read_text", path, <<>>, <<>>)>>)
    ELSE Returns(file.text, <<Ev("read_text", path, file.text, <<>>)>>)

-----------------------------------------------------------------------------
(* Credential files: reading *)

\* _parse_auth_file_contents
_parse_auth_file_contents(contents) ==
    IF Truthy(contents)
    THEN Partition(Strip(FirstLine(contents)))
    ELSE <<None, None>>

\* a result with the events that came before it put in front
After(trace, r) == [r EXCEPT !.trace = trace \o r.trace]

\* Path.exists()
Exists(file) == <<Ev("exists", file, <<>>, <<>>)>>

\* file.read_text().strip()
Stripped(r) == IF r.exc # "" THEN r ELSE [r EXCEPT !.ret = Strip(r.ret)]

\* _do_load_auth_file raising on insecure permissions instead of returning None
_do_load_auth_file_raising(files, file, allow_insecure) ==
    IF ~files[file].exists THEN Returns(None, Exists(file))
    ELSE IF ~allow_insecure /\ ~file_has_secure_permissions(files[file])
    THEN Raises("PermissionError", Exists(file) \o <<Ev("error", file, <<>>, <<>>)>>)
    ELSE After(Exists(file), Stripped(read_text(files[file], file)))

\* _do_load_auth_file
_do_load_auth_file(files, file, allow_insecure) ==
    IF ~files[file].exists THEN Returns(None, Exists(file))
    ELSE IF ~allow_insecure /\ ~file_has_secure_permissions(files[file])
    THEN Returns(None, Exists(file) \o <<Ev("error", file, <<>>, <<>>)>>)
    ELSE After(Exists(file), Stripped(read_text(files[file], file)))

\* Authenticator._load_auth_file
_load_auth_file(cfg, files, file) ==
    IF ~files[file].exists THEN Returns(None, Exists(file))
    ELSE IF ~cfg.app_allow_insecure_authfile /\ ~file_has_secure_permissions(files[file])
    THEN Returns(None, Exists(file) \o <<Ev("error", file, <<>>, <<>>)>>)
    ELSE After(Exists(file), Stripped(read_text(files[file], file)))

\* paths + [p] unless p is one of them
AppendIfNew(paths, p) ==
    IF \E i \in 1..Len(paths) : paths[i] = p THEN paths ELSE Append(paths, p)

\* get_auth_file_paths
get_auth_file_paths(cfg) ==
    IF cfg.is_none THEN <<AUTH_FILE, AUTH_FILE_LEGACY>>
    ELSE AppendIfNew(<<AUTH_FILE, AUTH_FILE_LEGACY>>, cfg.app_auth_file)

\* get_auth_token_file_paths with the legacy path in front
get_auth_token_file_paths_legacy_first(cfg) ==
    IF cfg.is_none THEN <<AUTH_TOKEN_FILE_LEGACY, AUTH_TOKEN_FILE>>
    ELSE AppendIfNew(<<AUTH_TOKEN_FILE_LEGACY, AUTH_TOKEN_FILE>>, cfg.app_auth_token_file)

\* get_auth_token_file_paths
get_auth_token_file_paths(cfg) ==
    IF cfg.is_none THEN <<AUTH_TOKEN_FILE, AUTH_TOKEN_FILE_LEGACY>>
    ELSE AppendIfNew(<<AUTH_TOKEN_FILE, AUTH_TOKEN_FILE_LEGACY>>, cfg.app_auth_token_file)

\* the for loop of Authenticator._load_auth_token_file, from paths[i] on
RECURSIVE TokenFileLoop(_, _, _, _, _)
\* the loop's body once _do_load_auth_file(paths[i]) has given r
RECURSIVE TokenFileStep(_, _, _, _, _)
TokenFileLoop(cfg, files, paths, i, trace) ==
    IF i > Len(paths)
    THEN Returns(None, trace \o <<Ev("error", "", <<>>, <<>>)>>)
    ELSE TokenFileStep(cfg, files, paths, i,
             After(trace, _do_load_auth_file(files, paths[i], cfg.app_allow_insecure_authfile)))

TokenFileStep(cfg, files, paths, i, r) ==
    IF r.exc # "" THEN r
    ELSE IF Truthy(r.ret) THEN r
    ELSE TokenFileLoop(cfg, files, paths, i + 1, r.trace)

\* Authenticator._load_auth_token_file
_load_auth_token_file(cfg, files) ==
    TokenFileLoop(cfg, files, get_auth_token_file_paths(cfg), 1, <<>>)

\* the for loop of Authenticator.load_auth_file, from paths[i] on
RECURSIVE AuthFileLoop(_, _, _, _, _)
\* the loop's body once _load_auth_file(paths[i]) has given r
RECURSIVE AuthFileStep(_, _, _, _, _)
AuthFileLoop(cfg, files, paths, i, trace) ==
    IF i > Len(paths)
    THEN Returns(None, trace)
    ELSE AuthFileStep(cfg, files, paths, i, After(trace, _load_auth_file(cfg, files, paths[i])))

AuthFileStep(cfg, files, paths, i, r) ==
    IF r.exc # "" THEN r
    ELSE IF Truthy(r.ret) THEN r
    ELSE AuthFileLoop(cfg, files, paths, i + 1, r.trace)

\* Authenticator.load_auth_file
load_auth_file(cfg, files) ==
    AuthFileLoop(cfg, files, get_auth_file_paths(cfg), 1, <<>>)

-----------------------------------------------------------------------------
(* Credential files: writing *)

\* Path.touch(mode=SECURE_PERMISSIONS) of a file that does not exist; can_create
\* is whether the OS lets the process create it
touch(files, file, can_create) ==
    IF can_create
    THEN [fs |-> [files EXCEPT ![file] = File(32768 + SECURE_PERMISSIONS, <<>>)], exc |-> ""]
    ELSE [fs |-> files, exc |-> "OSError"]

\* Path.chmod(SECURE_PERMISSIONS); can_chmod is whether the OS lets the process
chmod(files, file, can_chmod) ==
    IF can_chmod
    THEN [fs |-> [files EXCEPT ![file].st_mode =
                    (files[file].st_mode - get_file_permissions(files[file]))
                    + SECURE_PERMISSIONS],
          exc |-> ""]
    ELSE [fs |-> files, exc |-> "OSError"]

\* Path.write_text(contents): truncates and writes
write_text(files, file, contents) == [files EXCEPT ![file].text = contents]

\* write_auth_token_file that writes even though the touch or chmod failed
WriteContents_anyway(file, contents, prepared) ==
    [ret |-> file, exc |-> "",
     trace |-> <<Ev("write_text", file, contents, <<>>)>>,
     fs |-> [prepared.fs EXCEPT ![file] =
               File(IF @.exists THEN @.st_mode ELSE 32768 + SECURE_PERMISSIONS, contents)]]

\* write_auth_token_file after the touch or chmod gave prepared
WriteContents(file, contents, prepared) ==
    IF prepared.exc # ""
    THEN [ret |-> None, exc |-> "AuthTokenFileError", trace |-> <<>>, fs |-> prepared.fs]
    ELSE [ret |-> file, exc |-> "",
          trace |-> <<Ev("write_text", file, contents, <<>>)>>,
          fs |-> write_text(prepared.fs, file, contents)]

\* write_auth_token_file; os_ok is whether the OS grants the touch or chmod
write_auth_token_file(files, username, auth_token, file, os_ok) ==
    WriteContents(file, Format(username, auth_token),
        IF ~files[file].exists THEN touch(files, file, os_ok)
        ELSE IF ~file_has_secure_permissions(files[file]) THEN chmod(files, file, os_ok)
        ELSE [fs |-> files, exc |-> ""])

-----------------------------------------------------------------------------
(* The remote API client and the prompt *)

NewClient == [auth |-> <<>>]

\* the events of the two forms of ZabbixAPI.login
LOGIN_TOKEN == "client.login(auth_token)"

LOGIN_PASSWORD == "client.login(user, password)"

\* ZabbixAPI.login(auth_token=...): the token becomes the client's auth and the
\* server validates it; remote is the server's answer
client_login_token(cl, auth_token, remote) ==
    IF remote.ok
    THEN [ret |-> auth_token, exc |-> "",
          trace |-> <<Ev(LOGIN_TOKEN, "ok", auth_token, <<>>)>>,
          client |-> [cl EXCEPT !.auth = auth_token]]
    ELSE [ret |-> None, exc |-> "ZabbixAPIException",
          trace |-> <<Ev(LOGIN_TOKEN, "failed", auth_token, <<>>)>>,
          client |-> cl]

\* ZabbixAPI.login(user=..., password=...): the server answers with a new
\* session token or rejects the login
client_login_password(cl, user, password, remote) ==
    IF remote.ok
    THEN [ret |-> remote.token, exc |-> "",
          trace |-> <<Ev(LOGIN_PASSWORD, "ok", user, password)>>,
          client |-> [cl EXCEPT !.auth = remote.token]]
    ELSE [ret |-> None, exc |-> "ZabbixAPIException",
          trace |-> <<Ev(LOGIN_PASSWORD, "failed", user, password)>>,
          client |-> cl]

\* str_prompt(..., default=default): what the user typed, the default for nothing
str_prompt(default, typed) == IF typed = <<>> THEN default ELSE typed

\* the pair prompt_username_password returns, as the one event of its trace
Prompted(u, pw) == Returns(<<u, pw>>, <<Ev("prompt", "", u, pw)>>)

\* prompt_username_password
prompt_username_password(username, typed) ==
    Prompted(str_prompt(username, typed.username), str_prompt(<<>>, typed.password))

-----------------------------------------------------------------------------
(* Authenticator *)

\* HasBoth with `or` for `and`
HasBoth_either(r) == r.exc = "" /\ (Truthy(r.ret[1]) \/ Truthy(r.ret[2]))

\* `if username and password` of a result holding a (username, password) pair
HasBoth(r) == r.exc = "" /\ Truthy(r.ret[1]) /\ Truthy(r.ret[2])

\* Authenticator._get_username_password_env
_get_username_password_env(env) ==
    Returns(<<env.username, env.password>>, <<Ev("environ", "", <<>>, <<>>)>>)

\* _get_username_password_auth_file, once load_auth_file has given loaded
ParseLoaded(loaded) ==
    IF loaded.exc # "" THEN loaded
    ELSE Returns(_parse_auth_file_contents(loaded.ret), loaded.trace)

\* Authenticator._get_username_password_auth_file
_get_username_password_auth_file(cfg, files) == ParseLoaded(load_auth_file(cfg, files))

\* PromptElse asking twice
PromptElse_twice(cfg, typed, last) ==
    IF last.exc # "" THEN last
    ELSE IF HasBoth(last) THEN last
    ELSE After(After(last.trace, prompt_username_password(cfg.api_username, typed)).trace,
               prompt_username_password(cfg.api_username, typed))

\* get_username_password after its for loop ended without a break: last is
\* what the last method gave
PromptElse(cfg, typed, last) ==
    IF last.exc # "" THEN last
    ELSE IF HasBoth(last) THEN last
    ELSE After(last.trace, prompt_username_password(cfg.api_username, typed))

\* get_username_password's loop at its second method, the auth file; e is
\* what the first, the environment, gave
AuthFileElse(cfg, files, typed, e) ==
    IF HasBoth(e) THEN e
    ELSE PromptElse(cfg, typed, After(e.trace, _get_username_password_auth_file(cfg, files)))

\* Authenticator.get_username_password
get_username_password(cfg, env, files, typed) ==
    AuthFileElse(cfg, files, typed, _get_username_password_env(env))

\* Authenticator.login_with_username_password
login_with_username_password(cl, username, password, remote) ==
    client_login_password(cl, username, password, remote)

\* login_with_username_password_auto, once get_username_password has given c
LoginWithPair(cl, remote, c) ==
    IF c.exc # ""
    THEN [ret |-> None, exc |-> c.exc, trace |-> c.trace, client |-> cl]
    ELSE After(c.trace, login_with_username_password(cl, c.ret[1], c.ret[2], remote))

\* Authenticator.login_with_username_password_auto
login_with_username_password_auto(cfg, env, files, cl, typed, remote) ==
    LoginWithPair(cl, remote, get_username_password(cfg, env, files, typed))

\* LoginWithParsed without the comparison with the configured username
LoginWithParsed_any(cfg, cl, remote, l, username, auth_token) ==
    IF ~Truthy(auth_token)
    THEN [ret |-> None, exc |-> "", trace |-> l.trace, client |-> cl]
    ELSE IF Truthy(username)
    THEN After(l.trace, client_login_token(cl, auth_token, remote))
    ELSE [ret |-> None, exc |-> "",
          trace |-> l.trace \o <<Ev("warning", "", username, cfg.api_username)>>,
          client |-> cl]

\* login_with_auth_token_file, once the contents l.ret are parsed
LoginWithParsed(cfg, cl, remote, l, username, auth_token) ==
    IF ~Truthy(auth_token)
    THEN [ret |-> None, exc |-> "", trace |-> l.trace, client |-> cl]
    ELSE IF Truthy(username) /\ username = cfg.api_username
    THEN After(l.trace, client_login_token(cl, auth_token, remote))
    ELSE [ret |-> None, exc |-> "",
          trace |-> l.trace \o <<Ev("warning", "", username, cfg.api_username)>>,
          client |-> cl]

\* login_with_auth_token_file, once _load_auth_token_file has given l
LoginWithLoaded(cfg, cl, remote, l, parsed) ==
    IF l.exc # ""
    THEN [ret |-> None, exc |-> l.exc, trace |-> l.trace, client |-> cl]
    ELSE LoginWithParsed(cfg, cl, remote, l, parsed[1], parsed[2])

\* the two first statements of login_with_auth_token_file
ParseTokenFile(cfg, cl, remote, l) ==
    LoginWithLoaded(cfg, cl, remote, l, _parse_auth_file_contents(l.ret))

\* Authenticator.login_with_auth_token_file
login_with_auth_token_file(cfg, files, cl, remote) ==
    ParseTokenFile(cfg, cl, remote, _load_auth_token_file(cfg, files))

\* the if/elif chain of Authenticator.login: the configured method, if any
ConfiguredLogin(cfg, files, cl, remote) ==
    IF Truthy(cfg.api_auth_token)
    THEN client_login_token(cl, cfg.api_auth_token, remote)
    ELSE IF Truthy(cfg.api_username) /\ Truthy(cfg.api_password)
    THEN login_with_username_password(cl, cfg.api_username, cfg.api_password, remote)
    ELSE IF cfg.app_use_auth_token_file
    THEN login_with_auth_token_file(cfg, files, cl, remote)
    ELSE [ret |-> None, exc |-> "", trace |-> <<>>, client |-> cl]

\* `return self.client.auth`
ReturnAuth(r) == IF r.exc # "" THEN r ELSE [r EXCEPT !.ret = r.client.auth]

\* FallBack without the test of self.client.auth: the fall-back always runs
FallBack_always(cfg, env, files, typed, remote, first) ==
    IF first.exc # "" THEN first
    ELSE ReturnAuth(After(first.trace,
             login_with_username_password_auto(cfg, env, files, first.client, typed, remote)))

\* FallBack with a failed first login swallowed: the fall-back runs after it
FallBack_retry(cfg, env, files, typed, remote, first) ==
    IF ~Truthy(first.client.auth)
    THEN ReturnAuth(After(first.trace,
             login_with_username_password_auto(cfg, env, files, first.client, typed, remote)))
    ELSE ReturnAuth(first)

\* Authenticator.login from `if not self.client.auth` on; first is what the
\* if/elif chain did
FallBack(cfg, env, files, typed, remote, first) ==
    IF first.exc # "" THEN first
    ELSE IF ~Truthy(first.client.auth)
    THEN ReturnAuth(After(first.trace,
             login_with_username_password_auto(cfg, env, files, first.client, typed, remote)))
    ELSE ReturnAuth(first)

\* Authenticator.login; remote1 and remote2 are the server's answers to the
\* first and to the second client.login call the method makes
Authenticator_login(cfg, env, files, cl, typed, remote1, remote2) ==
    FallBack(cfg, env, files, typed, remote2, ConfiguredLogin(cfg, files, cl, remote1))

\* a result that leaves the file system as it is
KeepFiles(files, r) ==
    [ret |-> None, exc |-> r.exc, trace |-> r.trace, client |-> r.client, fs |-> files]

\* login() once write_auth_token_file has given w
Written(a, w) ==
    [ret |-> None, exc |-> w.exc, trace |-> a.trace \o w.trace, client |-> a.client,
     fs |-> w.fs]

\* login(client, config) after auth.login() has given a
SaveToken(cfg, files, os_ok, a) ==
    IF a.exc # "" THEN KeepFiles(files, a)
    ELSE IF cfg.app_use_auth_token_file
    THEN Written(a, write_auth_token_file(files, cfg.api_username, a.ret,
                                          cfg.app_auth_token_file, os_ok))
    ELSE KeepFiles(files, a)

\* login(client, config)
login(cfg, env, files, cl, typed, remote1, remote2, os_ok) ==
    SaveToken(cfg, files, os_ok,
              Authenticator_login(cfg, env, files, cl, typed, remote1, remote2))

-----------------------------------------------------------------------------
(* The values the checked environments are built from *)

alice == <<"a", "l", "i", "c", "e">>

bob == <<"b", "o", "b">>

carol == <<"c", "a", "r", "o", "l">>

tok123 == <<"t", "o", "k", "1", "2", "3">>

tok456 == <<"t", "o", "k", "4", "5", "6">>

tok789 == <<"t", "o", "k", "7", "8", "9">>

tokCfg == <<"t", "o", "k", "C", "f", "g">>

session1 == <<"s", "e", "s", "s", "1">>

pwCfg == <<"p", "w", "C", "f", "g">>

pwEnv == <<"p", "w", "E", "n", "v">>

pwFile == <<"p", "w", "F", "i", "l", "e">>

pwTyped == <<"p", "w", "T", "y", "p", "e", "d">>

\* st_mode of regular files: 0o100600, 0o100644, 0o100660, 0o100400, 0o100200
Mode600 == 32768 + SECURE_PERMISSIONS

Mode644 == 32768 + 420

Mode660 == 32768 + 432

Mode400 == 32768 + 256

Mode200 == 32768 + 128

Config(auth_token, username, password, use_token_file, allow_insecure, token_file, auth_file) ==
    [is_none |-> FALSE,
     api_auth_token |-> auth_token,
     api_username |-> username,
     api_password |-> password,
     app_use_auth_token_file |-> use_token_file,
     app_allow_insecure_authfile |-> allow_insecure,
     app_auth_token_file |-> token_file,
     app_auth_file |-> auth_file,
     app_output_format |-> "table"]

\* the texts of at most MaxLen characters that the round trip is tried on
MaxLen == 2

Alphabet == {"a", ":", " ", "\n"}

Texts == UNION {[1..n -> Alphabet] : n \in 0..MaxLen}

\* what the server may answer to a login, and what the user may type
Remotes == [ok : BOOLEAN, token : {session1}]

Typed == [username : {<<>>, carol}, password : {pwTyped}]

\* the file system with the given files at the given paths and no other file
Files(paths, files) ==
    [p \in Paths |-> IF \E i \in 1..Len(paths) : paths[i] = p
                     THEN files[CHOOSE i \in 1..Len(paths) : paths[i] = p]
                     ELSE NoFile]

\* a reference to no object: None
NoRef == 0

\* the references to Config objects: the object that configure() is given, the
\* copy that is the REPL baseline and the copy that a revert makes active; an
\* object that nothing refers to any more is collected
Refs == 1..3

\* the State as the class body initialises it; repl is set by the launcher;
\* _client tells whether the State refers to the ZabbixAPI object, client
NewState(repl) ==
    [repl |-> repl, _client |-> FALSE, _config |-> NoRef, _config_repl_original |-> NoRef]

\* a place of the heap that holds no object
Free == [is_none |-> TRUE]

NoObjects == [r \in Refs |-> Free]

\* the life of the process (spec, Process-Wide Session State)
UNCONFIGURED == "UNCONFIGURED"

CONFIGURING == "CONFIGURING"

AUTHENTICATED == "AUTHENTICATED"

LOGGED_OUT == "LOGGED_OUT"

ABANDONED == "ABANDONED"

Start == [name |-> "start", file |-> "", username |-> <<>>, token |-> <<>>]

\* a call of the function name; file, username and token are the arguments or
\* inputs of the call that the checked properties refer to
Called(name, file, username, token) ==
    [name |-> name, file |-> file, username |-> username, token |-> token]

\* a call whose outcome also depends on whether the OS grants the touch or chmod
\* the call makes
CalledUnderOS(name, file, username, token, os_ok) ==
    [name |-> name, file |-> file, username |-> username, token |-> token,
     os_ok |-> os_ok]

Fresh == op = Start

-----------------------------------------------------------------------------
(* Operations *)

\* the operation called ended with result r: what the caller sees of it
Finish(called, r) ==
    /\ op' = called
    /\ out' = [ret |-> r.ret, exc |-> r.exc, trace |-> r.trace]
    /\ UNCHANGED <<state, heap, phase>>

\* a call of _do_load_auth_file(file, allow_insecure)
DoLoadAuthFile ==
    \E file \in Paths :
        /\ Finish(Called("_do_load_auth_file", file, <<>>, <<>>),
                  _do_load_auth_file(fs, file, config.app_allow_insecure_authfile))
        /\ UNCHANGED <<config, environ, fs, client>>

\* a call of Authenticator._load_auth_file(file)
LoadAuthFileAt ==
    \E file \in Paths :
        /\ Finish(Called("_load_auth_file", file, <<>>, <<>>),
                  _load_auth_file(config, fs, file))
        /\ UNCHANGED <<config, environ, fs, client>>

\* a call of Authenticator._load_auth_token_file()
LoadAuthTokenFile ==
    /\ Finish(Called("_load_auth_token_file", "", <<>>, <<>>),
              _load_auth_token_file(config, fs))
    /\ UNCHANGED <<config, environ, fs, client>>

\* a call of Authenticator.load_auth_file()
LoadAuthFile ==
    /\ Finish(Called("load_auth_file", "", <<>>, <<>>), load_auth_file(config, fs))
    /\ UNCHANGED <<config, environ, fs, client>>

\* a call of Authenticator.get_username_password(); the user, if asked, types typed
GetUsernamePassword ==
    \E typed \in Typed :
        /\ Finish(Called("get_username_password", "", typed.username, typed.password),
                  get_username_password(config, environ, fs, typed))
        /\ UNCHANGED <<config, environ, fs, client>>

\* the same of an operation that uses the client
FinishClient(called, r) ==
    /\ Finish(called, r)
    /\ client' = r.client

\* the same of an operation that also writes files
FinishFiles(called, r) ==
    /\ FinishClient(called, r)
    /\ fs' = r.fs

\* a call of Authenticator.login_with_auth_token_file()
LoginWithAuthTokenFile ==
    \E remote \in Remotes :
        /\ FinishClient(Called("login_with_auth_token_file", "", <<>>, <<>>),
                        login_with_auth_token_file(config, fs, client, remote))
        /\ UNCHANGED <<config, environ, fs>>

\* a call of Authenticator.login()
AuthenticatorLogin ==
    \E typed \in Typed, remote1 \in Remotes, remote2 \in Remotes :
        /\ FinishClient(
               Called("Authenticator.login", "", typed.username, typed.password),
               Authenticator_login(config, environ, fs, client, typed, remote1, remote2))
        /\ UNCHANGED <<config, environ, fs>>

\* a call of login(client, config)
Login ==
    \E typed \in Typed, remote1 \in Remotes, remote2 \in Remotes, os_ok \in BOOLEAN :
        /\ FinishFiles(
               CalledUnderOS("login", "", typed.username, typed.password, os_ok),
               login(config, environ, fs, client, typed, remote1, remote2, os_ok))
        /\ UNCHANGED <<config, environ>>

\* a file written by an operation that does not use the client
FinishWrite(called, r) ==
    /\ Finish(called, r)
    /\ fs' = r.fs

\* a call of write_auth_token_file(username, auth_token, file)
WriteAuthTokenFile ==
    \E username \in Texts, auth_token \in Texts,
       file \in {AUTH_TOKEN_FILE, CUSTOM_TOKEN_FILE}, os_ok \in BOOLEAN :
        /\ FinishWrite(CalledUnderOS("write_auth_token_file", file, username, auth_token,
                                     os_ok),
                       write_auth_token_file(fs, username, auth_token, file, os_ok))
        /\ UNCHANGED <<config, environ, client>>

\* the file just written is read and parsed as login_with_auth_token_file does:
\* _do_load_auth_file, then _parse_auth_file_contents
ReadBack ==
    /\ op.name = "write_auth_token_file"
    /\ out.exc = ""
    /\ Finish([op EXCEPT !.name = "read_back"],
              ParseLoaded(_do_load_auth_file(fs, op.file, config.app_allow_insecure_authfile)))
    /\ UNCHANGED <<config, environ, fs, client>>

-----------------------------------------------------------------------------
(* Spec: one login in an arbitrary environment *)

TokenFileStates ==
    {NoFile, File(Mode600, Format(alice, tok123)), File(Mode644, Format(alice, tok123)),
     File(Mode600, <<>>), File(Mode600, alice)}

AuthFileStates ==
    {NoFile, File(Mode600, Format(alice, pwFile)), File(Mode644, Format(alice, pwFile)),
     File(Mode600, <<>>), File(Mode600, alice)}

Init ==
    /\ config \in {Config(t, u, p, k, i, f, AUTH_FILE) :
                     t \in {None, tokCfg}, u \in {<<>>, alice, bob}, p \in {None, pwCfg},
                     k \in BOOLEAN, i \in BOOLEAN,
                     f \in {AUTH_TOKEN_FILE, CUSTOM_TOKEN_FILE}}
    /\ environ \in {[username |-> None, password |-> None],
                    [username |-> bob, password |-> pwEnv]}
    /\ fs \in {Files(<<AUTH_TOKEN_FILE, AUTH_TOKEN_FILE_LEGACY, AUTH_FILE>>, <<t, l, a>>) :
                 t \in TokenFileStates,
                 l \in {NoFile, File(Mode600, Format(bob, tok456))},
                 a \in AuthFileStates}
    /\ client = NewClient
    /\ op = Start
    /\ out = Returns(None, <<>>)
    /\ state = NewState(FALSE)
    /\ heap = NoObjects
    /\ phase = UNCONFIGURED

Next ==
    \/ Fresh /\ LoginWithAuthTokenFile
    \/ Fresh /\ AuthenticatorLogin
    \/ Fresh /\ Login

Spec == Init /\ [][Next]_vars

-----------------------------------------------------------------------------
(* What the checked properties speak of *)

IsLogin(e) == e.ev \in {LOGIN_TOKEN, LOGIN_PASSWORD}

\* the client.login calls of a trace, in order
RECURSIVE RemoteCalls(_)
RemoteCalls(trace) ==
    IF trace = <<>> THEN <<>>
    ELSE IF IsLogin(Head(trace)) THEN <<Head(trace)>> \o RemoteCalls(Tail(trace))
    ELSE RemoteCalls(Tail(trace))

HasDelimiter(t) == \E i \in 1..(Len(t) - 1) : t[i] = ":" /\ t[i + 1] = ":"

StartsWith(t, prefix) == Len(t) >= Len(prefix) /\ SubSeq(t, 1, Len(prefix)) = prefix

\* the file is there and is refused for its permissions
Refused(f) ==
    /\ f.exists
    /\ ~config.app_allow_insecure_authfile
    /\ f.st_mode # Mode600

\* a token file that cannot be used: missing, refused, empty, without
\* delimiter or recording another username than the configured one
TokenFileProblem(f) ==
    \/ ~f.exists
    \/ Refused(f)
    \/ f.text = <<>>
    \/ ~HasDelimiter(f.text)
    \/ ~StartsWith(f.text, config.api_username \o <<":", ":">>)

\* an auth file that cannot be used: missing, refused, empty or without delimiter
AuthFileProblem(f) ==
    \/ ~f.exists
    \/ Refused(f)
    \/ f.text = <<>>
    \/ ~HasDelimiter(f.text)

EnvHasBoth == Truthy(environ.username) /\ Truthy(environ.password)

AliceTokenFile == File(Mode600, Format(alice, tok123))

-----------------------------------------------------------------------------
(* C2: with an API token in the configuration, Authenticator.login() makes   *)
(* the token login and nothing else: no username/password login, no read of *)
(* a token file or auth file, no read of the environment, no prompt.        *)
C2_ApiTokenOnly ==
    (op.name = "Authenticator.login" /\ Truthy(config.api_auth_token)) =>
        /\ Len(out.trace) = 1
        /\ out.trace[1].ev = LOGIN_TOKEN
        /\ out.trace[1].x = config.api_auth_token

C2_Witness ==
    /\ op.name = "Authenticator.login"
    /\ config.api_auth_token = tokCfg
    /\ config.api_username = alice
    /\ config.api_password = pwCfg
    /\ config.app_use_auth_token_file
    /\ EnvHasBoth
    /\ fs[AUTH_TOKEN_FILE] = AliceTokenFile
    /\ fs[AUTH_FILE] = File(Mode600, Format(alice, pwFile))
    /\ out.exc = ""
    /\ out.ret = tokCfg

(* C3: a token of the auth token file is used for a login only if the file  *)
(* records the configured username: alice::tok123 is rejected with a        *)
(* warning and no token login when bob is configured, and client.login is   *)
(* called with tok123 when alice is configured.                             *)
C3_UsernameTokenBinding ==
    op.name = "login_with_auth_token_file" =>
        /\ \A i \in 1..Len(out.trace) :
               out.trace[i].ev = LOGIN_TOKEN =>
                   \E p \in TokenPaths :
                       /\ fs[p].exists
                       /\ fs[p].text = Format(config.api_username, out.trace[i].x)
        /\ (fs[AUTH_TOKEN_FILE] = AliceTokenFile /\ config.api_username = bob) =>
               /\ Count(out.trace, LOGIN_TOKEN) = 0
               /\ Count(out.trace, "warning") = 1
               /\ client.auth = <<>>
        /\ (fs[AUTH_TOKEN_FILE] = AliceTokenFile /\ config.api_username = alice) =>
               /\ Count(out.trace, LOGIN_TOKEN) = 1
               /\ Only(out.trace, LOGIN_TOKEN)[1].x = tok123

C3_Witness ==
    /\ op.name = "login_with_auth_token_file"
    /\ fs[AUTH_TOKEN_FILE] = AliceTokenFile
    /\ config.api_username = bob
    /\ Count(out.trace, "warning") = 1
    /\ Count(out.trace, "read_text") = 1

(* C7: one Authenticator.login() makes at most one client.login call, and a *)
(* failed client.login raises to the caller and is the last thing the       *)
(* method does: no second attempt with another credential source.           *)
C7_NoRetry ==
    op.name = "Authenticator.login" =>
        /\ Len(RemoteCalls(out.trace)) <= 1
        /\ \A i \in 1..Len(out.trace) :
               (IsLogin(out.trace[i]) /\ out.trace[i].p = "failed") =>
                   /\ out.exc = "ZabbixAPIException"
                   /\ i = Len(out.trace)

C7_Witness ==
    /\ op.name = "Authenticator.login"
    /\ out.exc = "ZabbixAPIException"
    /\ out.trace[1].ev = LOGIN_TOKEN
    /\ out.trace[1].p = "failed"
    /\ EnvHasBoth
    /\ fs[AUTH_FILE] = File(Mode600, Format(alice, pwFile))

(* C8: a credential file that cannot be read or used is never fatal: with   *)
(* no configured token or password and every token file missing, refused,   *)
(* empty, without delimiter or of another username, Authenticator.login()   *)
(* goes on to the username/password login and returns its token; with the   *)
(* auth file unusable too and no environment credentials it prompts.        *)
C8_FileProblemsNotFatal ==
    (/\ op.name = "Authenticator.login"
     /\ ~Truthy(config.api_auth_token)
     /\ ~(Truthy(config.api_username) /\ Truthy(config.api_password))
     /\ \A p \in TokenPaths : TokenFileProblem(fs[p])) =>
        /\ out.exc \in {"", "ZabbixAPIException"}
        /\ Count(out.trace, LOGIN_TOKEN) = 0
        /\ Count(out.trace, LOGIN_PASSWORD) = 1
        /\ out.trace[Len(out.trace)].ev = LOGIN_PASSWORD
        /\ out.trace[Len(out.trace)].p = "ok" =>
               /\ out.exc = ""
               /\ out.ret = session1
               /\ client.auth = session1
        /\ (~EnvHasBoth /\ \A p \in AuthPaths : AuthFileProblem(fs[p])) =>
               /\ Count(out.trace, "prompt") = 1
               /\ out.trace[Len(out.trace)].x = Only(out.trace, "prompt")[1].x
               /\ out.trace[Len(out.trace)].y = Only(out.trace, "prompt")[1].y

C8_Witness ==
    /\ op.name = "Authenticator.login"
    /\ config.api_auth_token = None
    /\ config.api_password = None
    /\ config.api_username = bob
    /\ config.app_use_auth_token_file
    /\ ~config.app_allow_insecure_authfile
    /\ fs[AUTH_TOKEN_FILE] = AliceTokenFile
    /\ fs[AUTH_TOKEN_FILE_LEGACY] = NoFile
    /\ fs[AUTH_FILE] = File(Mode644, Format(alice, pwFile))
    /\ ~EnvHasBoth
    /\ Count(out.trace, "warning") = 1
    /\ Count(out.trace, "error") = 1
    /\ out.exc = ""
    /\ out.ret = session1

(* C9: after login(client, config) succeeded with token-file persistence    *)
(* enabled, the auth token file holds <username>::<token> with the session  *)
(* token just obtained and the username that was used to obtain it, also    *)
(* when that username came from the environment, the auth file or the       *)
(* prompt.                                                                  *)
C9_TokenFileKeyedToLoginUsername ==
    (op.name = "login" /\ out.exc = "" /\ config.app_use_auth_token_file) =>
        fs[config.app_auth_token_file].text =
            Format(IF RemoteCalls(out.trace)[1].ev = LOGIN_PASSWORD
                   THEN RemoteCalls(out.trace)[1].x
                   ELSE config.api_username,
                   client.auth)

-----------------------------------------------------------------------------
(* SpecRead: one read of credential files of any mode and content *)

Padded(t) == <<" ">> \o t \o <<"\n">>

InitRead ==
    /\ config \in {Config(None, alice, None, TRUE, i, f, a) :
                     i \in BOOLEAN,
                     f \in {AUTH_TOKEN_FILE, CUSTOM_TOKEN_FILE},
                     a \in {AUTH_FILE, CUSTOM_AUTH_FILE}}
    /\ environ = [username |-> None, password |-> None]
    /\ fs \in {Files(<<AUTH_TOKEN_FILE, AUTH_TOKEN_FILE_LEGACY, CUSTOM_TOKEN_FILE, AUTH_FILE>>,
                     <<t, l, c, a>>) :
                 t \in {NoFile, AliceTokenFile, File(Mode644, Format(alice, tok123)),
                        File(Mode600, <<>>), File(Mode600, <<" ", "\n">>)},
                 l \in {NoFile, File(Mode600, Format(bob, tok456)),
                        File(Mode644, Format(bob, tok456)), File(Mode600, <<>>)},
                 c \in {NoFile, File(Mode600, Padded(Format(alice, tok789))),
                        File(Mode644, Format(alice, tok789)), File(Mode600, <<>>)},
                 a \in {NoFile} \cup
                       {File(m, t) : m \in {Mode600, Mode644, Mode660, Mode400, Mode200},
                                     t \in {<<>>, Padded(Format(alice, pwFile))}}}
    /\ client = NewClient
    /\ op = Start
    /\ out = Returns(None, <<>>)
    /\ state = NewState(FALSE)
    /\ heap = NoObjects
    /\ phase = UNCONFIGURED

NextRead ==
    \/ Fresh /\ DoLoadAuthFile
    \/ Fresh /\ LoadAuthFileAt
    \/ Fresh /\ LoadAuthTokenFile
    \/ Fresh /\ LoadAuthFile

SpecRead == InitRead /\ [][NextRead]_vars

\* t is raw without the white space at its two ends
IsTrimOf(t, raw) ==
    \E i \in 1..(Len(raw) + 1), j \in 0..Len(raw) :
        /\ t = SubSeq(raw, i, j)
        /\ \A k \in 1..(i - 1) : IsSpace(raw[k])
        /\ \A k \in (j + 1)..Len(raw) : IsSpace(raw[k])
        /\ t # <<>> => ~IsSpace(t[1]) /\ ~IsSpace(t[Len(t)])

Blank(t) == \A k \in 1..Len(t) : IsSpace(t[k])

\* modes broader than 0o600 among those of the checked files
BroaderModes == {Mode644, Mode660}

\* reading the file at p gives content
Yields(p) ==
    /\ fs[p].exists
    /\ config.app_allow_insecure_authfile \/ fs[p].st_mode = Mode600
    /\ ~Blank(fs[p].text)

\* the operation looked at the file at p
Touched(p) == \E i \in 1..Len(out.trace) : out.trace[i].p = p

(* C1: reading a credential file whose mode is broader than 0600 gives       *)
(* nothing, with an error reported and nothing raised, unless insecure files *)
(* are allowed, and then it gives the trimmed content; a file of mode 0600   *)
(* is always read.                                                           *)
C1_PermissionEnforcement ==
    (op.name \in {"_do_load_auth_file", "_load_auth_file"} /\ fs[op.file].exists) =>
        /\ (fs[op.file].st_mode \in BroaderModes /\ ~config.app_allow_insecure_authfile) =>
               /\ out.ret = None
               /\ out.exc = ""
               /\ Count(out.trace, "error") = 1
               /\ Count(out.trace, "read_text") = 0
        /\ (fs[op.file].st_mode \in BroaderModes /\ config.app_allow_insecure_authfile) =>
               /\ out.exc = ""
               /\ IsTrimOf(out.ret, fs[op.file].text)
        /\ fs[op.file].st_mode = Mode600 =>
               /\ out.exc = ""
               /\ IsTrimOf(out.ret, fs[op.file].text)

C1_Witness ==
    /\ op.name = "_load_auth_file"
    /\ op.file = AUTH_FILE
    /\ fs[AUTH_FILE] = File(Mode660, Padded(Format(alice, pwFile)))
    /\ ~config.app_allow_insecure_authfile
    /\ out.ret = None
    /\ Count(out.trace, "error") = 1

(* C10: the auth token file is looked for at the default path first, then   *)
(* at the legacy path, then at the configured path if it is another one;    *)
(* the content of the first path that yields content is the result, a path  *)
(* that is absent, refused or empty does not stop the search, and no path   *)
(* after the first that yields content is looked at.                        *)
C10_TokenFileSearchOrder ==
    op.name = "_load_auth_token_file" =>
        /\ out.exc = ""
        /\ Yields(AUTH_TOKEN_FILE) =>
               /\ IsTrimOf(out.ret, fs[AUTH_TOKEN_FILE].text)
               /\ ~Touched(AUTH_TOKEN_FILE_LEGACY)
               /\ ~Touched(CUSTOM_TOKEN_FILE)
        /\ (~Yields(AUTH_TOKEN_FILE) /\ Yields(AUTH_TOKEN_FILE_LEGACY)) =>
               /\ IsTrimOf(out.ret, fs[AUTH_TOKEN_FILE_LEGACY].text)
               /\ Touched(AUTH_TOKEN_FILE)
               /\ ~Touched(CUSTOM_TOKEN_FILE)
        /\ (/\ ~Yields(AUTH_TOKEN_FILE)
            /\ ~Yields(AUTH_TOKEN_FILE_LEGACY)
            /\ Yields(config.app_auth_token_file)) =>
               /\ IsTrimOf(out.ret, fs[config.app_auth_token_file].text)
               /\ Touched(AUTH_TOKEN_FILE)
               /\ Touched(AUTH_TOKEN_FILE_LEGACY)
        /\ (/\ ~Yields(AUTH_TOKEN_FILE)
            /\ ~Yields(AUTH_TOKEN_FILE_LEGACY)
            /\ ~Yields(config.app_auth_token_file)) =>
               out.ret = None

C10_Witness ==
    /\ op.name = "_load_auth_token_file"
    /\ ~config.app_allow_insecure_authfile
    /\ fs[AUTH_TOKEN_FILE] = File(Mode644, Format(alice, tok123))
    /\ fs[AUTH_TOKEN_FILE_LEGACY] = File(Mode600, <<>>)
    /\ config.app_auth_token_file = CUSTOM_TOKEN_FILE
    /\ out.ret = Format(alice, tok789)

-----------------------------------------------------------------------------
(* SpecCredentials: one get_username_password() with any environment and    *)
(* auth files                                                                *)

InitCredentials ==
    /\ config \in {Config(None, u, None, TRUE, i, AUTH_TOKEN_FILE, a) :
                     u \in {<<>>, alice}, i \in BOOLEAN,
                     a \in {AUTH_FILE, CUSTOM_AUTH_FILE}}
    /\ environ \in [username : {None, <<>>, bob}, password : {None, <<>>, pwEnv}]
    /\ fs \in {Files(<<AUTH_TOKEN_FILE, AUTH_FILE, AUTH_FILE_LEGACY, CUSTOM_AUTH_FILE>>,
                     <<t, a, l, c>>) :
                 t \in {NoFile, AliceTokenFile},
                 a \in {NoFile, File(Mode600, Format(alice, pwFile)),
                        File(Mode644, Format(alice, pwFile)), File(Mode600, <<>>),
                        File(Mode600, alice), File(Mode600, Format(alice, <<>>)),
                        File(Mode600, Format(<<>>, pwFile))},
                 l \in {NoFile, File(Mode600, Format(bob, pwFile))},
                 c \in {NoFile, File(Mode600, Format(carol, pwFile))}}
    /\ client = NewClient
    /\ op = Start
    /\ out = Returns(None, <<>>)
    /\ state = NewState(FALSE)
    /\ heap = NoObjects
    /\ phase = UNCONFIGURED

NextCredentials ==
    \/ Fresh /\ GetUsernamePassword
    \/ Fresh /\ LoadAuthFile

SpecCredentials == InitCredentials /\ [][NextCredentials]_vars

\* the pair the prompt gives for what the user typed (recorded in op)
TypedPair ==
    <<IF op.username = <<>> THEN config.api_username ELSE op.username, op.token>>

FilePairs == {<<alice, pwFile>>, <<bob, pwFile>>, <<carol, pwFile>>}

\* the first auth file path, in search order, that yields content
FirstAuthFile ==
    IF Yields(AUTH_FILE) THEN AUTH_FILE
    ELSE IF Yields(AUTH_FILE_LEGACY) THEN AUTH_FILE_LEGACY
    ELSE IF Yields(config.app_auth_file) THEN config.app_auth_file
    ELSE ""

\* the auth file yields a username and a password
FileHasBoth ==
    /\ FirstAuthFile # ""
    /\ \E pair \in FilePairs : fs[FirstAuthFile].text = Format(pair[1], pair[2])

(* C5: with no credential environment variable set and no auth file and no  *)
(* token file present, get_username_password() prompts exactly once and     *)
(* returns exactly the pair the prompt produced.                            *)
C5_FallbackExhaustion ==
    (/\ op.name = "get_username_password"
     /\ environ.username = None
     /\ environ.password = None
     /\ \A p \in Paths : ~fs[p].exists) =>
        /\ out.exc = ""
        /\ Count(out.trace, "prompt") = 1
        /\ out.ret = TypedPair
        /\ out.ret = <<Only(out.trace, "prompt")[1].x, Only(out.trace, "prompt")[1].y>>

C5_Witness ==
    /\ op.name = "get_username_password"
    /\ environ.username = None
    /\ environ.password = None
    /\ \A p \in Paths : ~fs[p].exists
    /\ config.api_username = alice
    /\ op.username = carol
    /\ out.ret = <<carol, pwTyped>>

(* C6: get_username_password() reads the environment first, then the auth   *)
(* file, then prompts; it returns the pair of the first source that yields  *)
(* both a username and a password, never a pair mixed from two sources, and *)
(* prompts if and only if neither the environment nor the auth file yields  *)
(* both.                                                                    *)
C6_FirstCompleteSource ==
    op.name = "get_username_password" =>
        /\ out.exc = ""
        /\ out.trace[1].ev = "environ"
        /\ EnvHasBoth =>
               /\ out.ret = <<environ.username, environ.password>>
               /\ Len(out.trace) = 1
        /\ (~EnvHasBoth /\ FileHasBoth) =>
               /\ out.ret \in FilePairs
               /\ fs[FirstAuthFile].text = Format(out.ret[1], out.ret[2])
               /\ Count(out.trace, "prompt") = 0
        /\ (~EnvHasBoth /\ ~FileHasBoth) =>
               /\ Count(out.trace, "prompt") = 1
               /\ out.trace[Len(out.trace)].ev = "prompt"
               /\ out.ret = TypedPair

C6_Witness ==
    /\ op.name = "get_username_password"
    /\ environ.username = bob
    /\ environ.password = None
    /\ fs[AUTH_FILE] = File(Mode600, Format(<<>>, pwFile))
    /\ fs[AUTH_FILE_LEGACY] = File(Mode600, Format(bob, pwFile))
    /\ op.username = carol
    /\ out.ret = <<carol, pwTyped>>

-----------------------------------------------------------------------------
(* SpecRoundTrip: a token file is written and read back *)

OldTokenFile(mode) == File(mode, Format(bob, tok456))

InitRoundTrip ==
    /\ config = Config(None, alice, None, TRUE, FALSE, AUTH_TOKEN_FILE, AUTH_FILE)
    /\ environ = [username |-> None, password |-> None]
    /\ fs \in {Files(<<AUTH_TOKEN_FILE, CUSTOM_TOKEN_FILE>>, <<t, c>>) :
                 t \in {NoFile, OldTokenFile(Mode600), OldTokenFile(Mode644)},
                 c \in {NoFile, OldTokenFile(Mode644)}}
    /\ client = NewClient
    /\ op = Start
    /\ out = Returns(None, <<>>)
    /\ state = NewState(FALSE)
    /\ heap = NoObjects
    /\ phase = UNCONFIGURED

NextRoundTrip ==
    \/ Fresh /\ WriteAuthTokenFile
    \/ ReadBack

SpecRoundTrip == InitRoundTrip /\ [][NextRoundTrip]_vars

(* C4: round trip: for every username and token, write_auth_token_file      *)
(* followed by reading the same path and parsing its content yields exactly *)
(* the pair (username, token) that was written.                             *)
C4_RoundTrip ==
    op.name = "read_back" =>
        /\ out.exc = ""
        /\ out.ret = <<op.username, op.token>>

-----------------------------------------------------------------------------
(* Writing the token file is all-or-nothing *)

\* write_auth_token_file has to touch or chmod the file before it writes
NeedsPreparing(file) == ~file.exists \/ ~file_has_secure_permissions(file)

\* login() obtained a session, is to save it in a file that must first be created
\* or tightened, and the OS refuses that
RefusedWrite ==
    /\ op'.name = "login"
    /\ Truthy(client'.auth)
    /\ config.app_use_auth_token_file
    /\ NeedsPreparing(fs[config.app_auth_token_file])
    /\ ~op'.os_ok

\* C11: when the token file cannot be created, or exists with other permissions
\* than 0600 and cannot be tightened, login() ends with the AuthTokenFileError
\* that write_auth_token_file raised, and every file is as it was before the
\* call, the token file's permissions and content included; login() ends with
\* that error in no other case.
C11_WriteAllOrNothing ==
    [][/\ RefusedWrite => (out'.exc = "AuthTokenFileError" /\ fs' = fs)
       /\ (op'.name = "login" /\ out'.exc = "AuthTokenFileError") => RefusedWrite]_vars

\* login() failed to tighten a token file of mode 0644 that holds alice's old
\* token, and the file still holds it
C11_Witness ==
    /\ op.name = "login"
    /\ out.exc = "AuthTokenFileError"
    /\ Truthy(client.auth)
    /\ config.app_auth_token_file = AUTH_TOKEN_FILE
    /\ fs[AUTH_TOKEN_FILE] = File(Mode644, Format(alice, tok123))

-----------------------------------------------------------------------------
(* The State singleton (src/zabbix_cli/state.py) *)

is_client_loaded(st) == st._client

is_config_loaded(st) == st._config # NoRef

\* State.client read before a client was stored
State_client_unchecked(st, cl) == Returns(cl, <<>>)

\* State.client (the property): the one ZabbixAPI object, cl, once it is stored
State_client(st, cl) ==
    IF ~st._client THEN Raises("RuntimeError", <<>>) ELSE Returns(cl, <<>>)

\* State.config (the property): the reference to the stored Config object
State_config(st) ==
    IF st._config = NoRef THEN Raises("RuntimeError", <<>>)
    ELSE Returns(st._config, <<>>)

\* the references that the State holds
InUse(st) == {st._config, st._config_repl_original} \ {NoRef}

\* the place of a newly made Config object: the first that holds none
NewRef(st) ==
    CHOOSE r \in Refs : r \notin InUse(st) /\ \A q \in 1..(r - 1) : q \in InUse(st)

\* the heap once the objects that nothing refers to are collected
Collect(st, hp) == [r \in Refs |-> IF r \in InUse(st) THEN hp[r] ELSE Free]

\* what an operation of the State leaves: the State and the heap
Leaves(st, hp) == [st |-> st, hp |-> Collect(st, hp)]

\* Config.model_copy(deep=True) of the object at ref, put at a new place
model_copy(st, hp, ref) == [hp EXCEPT ![NewRef(st)] = hp[ref]]

\* revert_config_overrides whose baseline is the active object and not a copy
revert_config_overrides_alias(st, hp) ==
    IF ~st.repl \/ ~is_config_loaded(st) THEN Leaves(st, hp)
    ELSE IF st._config_repl_original = NoRef
    THEN Leaves([st EXCEPT !._config_repl_original = st._config], hp)
    ELSE Leaves([st EXCEPT !._config = NewRef(st)],
                model_copy(st, hp, st._config_repl_original))

\* State.revert_config_overrides
revert_config_overrides(st, hp) ==
    IF ~st.repl \/ ~is_config_loaded(st) THEN Leaves(st, hp)
    ELSE IF st._config_repl_original = NoRef
    THEN Leaves([st EXCEPT !._config_repl_original = NewRef(st)],
                model_copy(st, hp, st._config))
    ELSE Leaves([st EXCEPT !._config = NewRef(st)],
                model_copy(st, hp, st._config_repl_original))

\* State.configure once login(self.client, self.config) has given r
Configured(st, hp, r) ==
    [st |-> st, hp |-> hp, exc |-> r.exc, trace |-> r.trace, client |-> r.client,
     fs |-> r.fs]

\* State.configure(config), config being the object at ref: the object and a
\* new client are stored, then login() runs
configure(st, hp, ref, env, files, typed, remote1, remote2, os_ok) ==
    Configured([st EXCEPT !._config = ref, !._client = TRUE], hp,
               login(hp[ref], env, files, NewClient, typed, remote1, remote2, os_ok))

\* the active Config object
Active == heap[state._config]

\* the stored baseline
Baseline == heap[state._config_repl_original]

\* the event of the remote logout call
LOGOUT == "client.user.logout()"

\* ZabbixAPI.user.logout(): the server ends the session or the call fails
client_user_logout(cl, remote_ok) ==
    IF remote_ok
    THEN [exc |-> "", trace |-> <<Ev(LOGOUT, "ok", cl.auth, <<>>)>>,
          client |-> [cl EXCEPT !.auth = <<>>]]
    ELSE [exc |-> "ZabbixAPIException", trace |-> <<Ev(LOGOUT, "failed", cl.auth, <<>>)>>,
          client |-> cl]

\* exit_err(message): the message is logged and SystemExit(1) raised
exit_err(message) == Raises("SystemExit", <<Ev("exit_err", message, <<>>, <<>>)>>)

\* _do_clear_auth_token_file without the test for the file: the write to a path
\* without a file fails
ClearStep_unchecked(file, unwritable, r) ==
    IF r.exc # "" THEN r
    ELSE IF ~r.fs[file].exists THEN [r EXCEPT !.exc = "FileNotFoundError"]
    ELSE IF file \in unwritable
    THEN [r EXCEPT !.trace = Append(@, Ev("error", file, <<>>, <<>>))]
    ELSE [r EXCEPT !.trace = Append(@, Ev("write_text", file, <<>>, <<>>)),
                   !.fs = write_text(@, file, <<>>)]

\* the body of the loop of clear_auth_token_file: _do_clear_auth_token_file(file)
\* in its try; r is the result so far, unwritable the files the OS lets no one write
ClearStep(file, unwritable, r) ==
    IF ~r.fs[file].exists THEN r
    ELSE IF file \in unwritable
    THEN [r EXCEPT !.trace = Append(@, Ev("error", file, <<>>, <<>>))]
    ELSE [r EXCEPT !.trace = Append(@, Ev("write_text", file, <<>>, <<>>)),
                   !.fs = write_text(@, file, <<>>)]

\* the for loop of clear_auth_token_file, from paths[i] on
RECURSIVE ClearLoop(_, _, _, _)
ClearLoop(paths, i, unwritable, r) ==
    IF i > Len(paths) THEN r
    ELSE ClearLoop(paths, i + 1, unwritable, ClearStep(paths[i], unwritable, r))

\* clear_auth_token_file(config), but for the assignment to config.api.auth_token
clear_auth_token_file(cfg, files, unwritable) ==
    ClearLoop(get_auth_token_file_paths(cfg), 1, unwritable,
              [exc |-> "", trace |-> <<>>, fs |-> files])

\* State.logout once clear_auth_token_file() has given c after the remote logout l
Cleared(l, c) ==
    IF c.exc # ""
    THEN [exc |-> "SystemExit",
          trace |-> l.trace \o c.trace \o exit_err("Failed to log out").trace,
          client |-> l.client, fs |-> c.fs]
    ELSE [exc |-> "", trace |-> l.trace \o c.trace, client |-> l.client, fs |-> c.fs]

\* State.logout once self.client.user.logout() has given l
LoggedOut(files, unwritable, l) ==
    IF l.exc # ""
    THEN [exc |-> "SystemExit", trace |-> l.trace \o exit_err("Failed to log out").trace,
          client |-> l.client, fs |-> files]
    ELSE Cleared(l, clear_auth_token_file(Free, files, unwritable))

\* State.logout that always ends the session
logout_always(st, hp, cl, files, remote_ok, unwritable) ==
    IF st._config = NoRef \/ ~st._client
    THEN [exc |-> "", trace |-> <<>>, client |-> cl, fs |-> files]
    ELSE LoggedOut(files, unwritable, client_user_logout(cl, remote_ok))

\* State.logout
logout(st, hp, cl, files, remote_ok, unwritable) ==
    IF st._config = NoRef \/ ~st._client \/ hp[st._config].app_use_auth_token_file
    THEN [exc |-> "", trace |-> <<>>, client |-> cl, fs |-> files]
    ELSE LoggedOut(files, unwritable, client_user_logout(cl, remote_ok))

\* the marker of a request of the server to log in again, in an exception's message
RE_LOGIN == <<"r", "e", "-", "l", "o", "g", "i", "n">>

\* sub in text, of two str
Contains(text, sub) ==
    \E i \in 0..(Len(text) - Len(sub)) : SubSeq(text, i + 1, i + Len(sub)) = sub

\* "re-login" in e.args[0], e.args not empty
HasMarker(args) == Contains(args[1], RE_LOGIN)

\* the message with which handle_zabbix_api_exception exits after it cleared the files
EXPIRED == "Auth token expired. Re-run the command to re-authenticate."

\* handle_notraceback(e): exit_err(str(e))
handle_notraceback(st, hp, cl, files) ==
    [st |-> st, hp |-> hp, exc |-> "SystemExit", trace |-> exit_err("str(e)").trace,
     client |-> cl, fs |-> files]

\* handle_zabbix_api_exception once state.configure(state.config) has given r
\* after the events before
Reconfigured(before, r) ==
    IF r.exc # "" THEN [r EXCEPT !.trace = before \o <<Ev("configure", "", <<>>, <<>>)>> \o @]
    ELSE [r EXCEPT !.exc = "SystemExit",
                   !.trace = before \o <<Ev("configure", "", <<>>, <<>>)>> \o @
                             \o exit_err(EXPIRED).trace]

\* handle_zabbix_api_exception once clear_auth_token_file(state.config) has given c
\* and set config.api.auth_token to None in the heap hp
ClearedStale(st, hp, cl, env, typed, remote1, remote2, os_ok, c) ==
    IF st.repl
    THEN Reconfigured(c.trace,
             configure(st, hp, st._config, env, c.fs, typed, remote1, remote2, os_ok))
    ELSE [st |-> st, hp |-> hp, exc |-> "SystemExit",
          trace |-> c.trace \o exit_err(EXPIRED).trace, client |-> cl, fs |-> c.fs]

\* handle_zabbix_api_exception once the configuration was found loaded and
\* token-file mode on: e.args[0] is read, and an exception without arguments has none
MarkerTested(st, hp, cl, env, files, args, typed, remote1, remote2, os_ok, unwritable) ==
    IF args = <<>>
    THEN [st |-> st, hp |-> hp, exc |-> "IndexError", trace |-> <<>>, client |-> cl,
          fs |-> files]
    ELSE IF HasMarker(args)
    THEN ClearedStale(st, [hp EXCEPT ![st._config].api_auth_token = None], cl, env,
                      typed, remote1, remote2, os_ok,
                      clear_auth_token_file(hp[st._config], files, unwritable))
    ELSE handle_notraceback(st, hp, cl, files)

\* handle_zabbix_api_exception(e), args being e.args
handle_zabbix_api_exception(st, hp, cl, env, files, args, typed, remote1, remote2, os_ok, unwritable) ==
    IF is_config_loaded(st) /\ hp[st._config].app_use_auth_token_file
    THEN MarkerTested(st, hp, cl, env, files, args, typed, remote1, remote2, os_ok,
                      unwritable)
    ELSE handle_notraceback(st, hp, cl, files)

-----------------------------------------------------------------------------
(* The table of exception handlers (src/zabbix_cli/exceptions.py) *)

\* the declared parents of the exception types the program knows: its own, those
\* of pydantic and httpx that the table names, and the builtin ones above them
Declared ==
    [object               |-> <<>>,
     BaseException        |-> <<"object">>,
     Exception            |-> <<"BaseException">>,
     ValueError           |-> <<"Exception">>,
     ZabbixCLIError       |-> <<"Exception">>,
     ConfigError          |-> <<"ZabbixCLIError">>,
     CommandFileError     |-> <<"ZabbixCLIError">>,
     AuthTokenFileError   |-> <<"ZabbixCLIError">>,
     AuthTokenError       |-> <<"ZabbixCLIError">>,
     ZabbixAPIException   |-> <<"ZabbixCLIError">>,
     ZabbixNotFoundError  |-> <<"ZabbixAPIException">>,
     ValidationError      |-> <<"ValueError">>,
     HTTPError            |-> <<"Exception">>,
     RequestError         |-> <<"HTTPError">>,
     TransportError       |-> <<"RequestError">>,
     NetworkError         |-> <<"TransportError">>,
     ConnectError         |-> <<"NetworkError">>]

KnownTypes == DOMAIN Declared

\* a type that some other code declares, with the parents it gives it
NewType == "T"

\* type_.__bases__; bases are those of the new type
Bases(type_, bases) == IF type_ = NewType THEN bases ELSE Declared[type_]

\* no handler: None
NoHandler == "None"

\* EXC_HANDLERS
EXC_HANDLERS ==
    [ZabbixAPIException |-> "handle_zabbix_api_exception",
     ZabbixCLIError     |-> "handle_notraceback",
     ValidationError    |-> "handle_validation_error",
     ConnectError       |-> "handle_connect_error",
     ConfigError        |-> "handle_notraceback"]

\* EXC_HANDLERS.get(type_, None)
Registered(type_) ==
    IF type_ \in DOMAIN EXC_HANDLERS THEN EXC_HANDLERS[type_] ELSE NoHandler

\* the handler of the first type of the sequence that has one
FirstRegistered(types) ==
    IF \E i \in 1..Len(types) : Registered(types[i]) # NoHandler
    THEN Registered(types[CHOOSE i \in 1..Len(types) :
                              /\ Registered(types[i]) # NoHandler
                              /\ \A j \in 1..(i - 1) : Registered(types[j]) = NoHandler])
    ELSE NoHandler

\* get_exception_handler that looks at the type and at its parents, no further
get_exception_handler_parents(type_, bases) ==
    FirstRegistered(<<type_>> \o Bases(type_, bases))

RECURSIVE get_exception_handler(_, _)
RECURSIVE BasesLoop(_, _, _)

\* the body of the loop over type_.__bases__ once the recursive call gave handler
BasesStep(parents, i, bases, handler) ==
    IF handler # NoHandler THEN handler ELSE BasesLoop(parents, i + 1, bases)

\* the loop over type_.__bases__, from parents[i] on
BasesLoop(parents, i, bases) ==
    IF i > Len(parents) THEN NoHandler
    ELSE BasesStep(parents, i, bases, get_exception_handler(parents[i], bases))

\* get_exception_handler(type_)
get_exception_handler(type_, bases) ==
    IF Registered(type_) # NoHandler THEN Registered(type_)
    ELSE BasesLoop(Bases(type_, bases), 1, bases)

\* handle_exception(e) once get_exception_handler(type(e)) has given handler: the
\* handler runs and exits, or e is raised again
Handled(type_, handler) ==
    IF handler = NoHandler THEN Raises(type_, <<>>)
    ELSE Raises("SystemExit", <<Ev(handler, "", <<>>, <<>>)>>)

\* handle_exception(e), e of the type
handle_exception(type_, bases) == Handled(type_, get_exception_handler(type_, bases))

-----------------------------------------------------------------------------
(* SpecState: the life of one process, from the start to the logout at exit *)

\* the process has not ended
Running == phase \in {UNCONFIGURED, CONFIGURING, AUTHENTICATED}

\* an operation of the State ended with result r and leaves the process in ph
FinishState(called, r, ph) ==
    /\ op' = called
    /\ out' = [ret |-> None, exc |-> r.exc, trace |-> r.trace]
    /\ state' = r.st
    /\ heap' = r.hp
    /\ client' = r.client
    /\ fs' = r.fs
    /\ phase' = ph
    /\ UNCHANGED <<config, environ>>

\* the same of an operation that a failure leaves in the middle of configure
FinishConfigure(called, r) ==
    FinishState(called, r, IF r.exc = "" THEN AUTHENTICATED ELSE CONFIGURING)

\* the launcher calls state.configure(config) with the Config object it loaded
Configure ==
    /\ phase = UNCONFIGURED
    /\ \E typed \in Typed, remote1 \in Remotes, remote2 \in Remotes, os_ok \in BOOLEAN :
        FinishConfigure(
            CalledUnderOS("configure", "", typed.username, typed.password, os_ok),
            configure(state, [heap EXCEPT ![NewRef(state)] = config], NewRef(state),
                      environ, fs, typed, remote1, remote2, os_ok))

\* a read of state.client
AccessClient ==
    /\ Running
    /\ op' = Called("State.client", "", <<>>, <<>>)
    /\ out' = State_client(state, client)
    /\ UNCHANGED <<config, environ, fs, client, state, heap, phase>>

\* a read of state.config
AccessConfig ==
    /\ Running
    /\ op' = Called("State.config", "", <<>>, <<>>)
    /\ out' = State_config(state)
    /\ UNCHANGED <<config, environ, fs, client, state, heap, phase>>

OutputFormats == {"table", "json"}

\* a command runs with the output format that its flags ask for, written into
\* the active configuration, and ends well or with an API exception
Command ==
    /\ phase = AUTHENTICATED
    /\ \E format \in OutputFormats, raised \in BOOLEAN :
        /\ op' = [name |-> "command", format |-> format]
        /\ heap' = [heap EXCEPT ![state._config].app_output_format = format]
        /\ out' = IF raised THEN Raises("ZabbixAPIException", <<>>) ELSE Returns(None, <<>>)
    /\ UNCHANGED <<config, environ, fs, client, state, phase>>

\* an operation of the State that uses neither client nor files ended with r
FinishRevert(called, r) ==
    /\ op' = called
    /\ out' = Returns(None, <<>>)
    /\ state' = r.st
    /\ heap' = r.hp
    /\ UNCHANGED <<config, environ, fs, client, phase>>

\* a call of state.revert_config_overrides()
RevertConfigOverrides ==
    /\ Running
    /\ FinishRevert([name |-> "revert_config_overrides",
                     found |-> IF is_config_loaded(state) THEN Active ELSE Free],
                    revert_config_overrides(state, heap))

\* a call of logout() ended with r: the process is over
FinishLogout(called, r) ==
    /\ op' = called
    /\ out' = [ret |-> None, exc |-> r.exc, trace |-> r.trace]
    /\ client' = r.client
    /\ fs' = r.fs
    /\ phase' = IF r.exc = "" /\ r.trace # <<>> THEN LOGGED_OUT ELSE ABANDONED
    /\ UNCHANGED <<config, environ, state, heap>>

\* the call of state.logout() when the process ends
Logout ==
    /\ Running
    /\ \E remote_ok \in BOOLEAN, unwritable \in SUBSET {AUTH_TOKEN_FILE, AUTH_TOKEN_FILE_LEGACY} :
        FinishLogout([name |-> "logout", remote_ok |-> remote_ok, unwritable |-> unwritable,
                      was |-> phase],
                     logout(state, heap, client, fs, remote_ok, unwritable))

\* the e.args of the API exceptions raised: none, the message of a server that
\* ended the session, another message
Args == {<<>>, <<<<"S", "e", "s", "s", "i", "o", "n", " ", "t", "e", "r", "m", "i", "n", "a", "t", "e", "d", ",", " ", "r", "e", "-", "l", "o", "g", "i", "n">>>>, <<<<"N", "o", " ", "p", "e", "r", "m", "i", "s", "s", "i", "o", "n", "s">>>>}

\* handle_exception(e) of the ZabbixAPIException that configure or the command raised
HandleException ==
    /\ phase \in {CONFIGURING, AUTHENTICATED}
    /\ op.name \in {"configure", "command"}
    /\ out.exc = "ZabbixAPIException"
    /\ get_exception_handler(out.exc, <<>>) = "handle_zabbix_api_exception"
    /\ \E args \in Args, typed \in Typed, remote1 \in Remotes, remote2 \in Remotes,
          os_ok \in BOOLEAN, unwritable \in SUBSET {AUTH_TOKEN_FILE} :
        FinishState([name |-> "handle_exception", args |-> args,
                     marker |-> (args # <<>> /\ HasMarker(args)), os_ok |-> os_ok,
                     unwritable |-> unwritable, of |-> op.name],
                    handle_zabbix_api_exception(state, heap, client, environ, fs, args,
                        typed, remote1, remote2, os_ok, unwritable),
                    IF ~(args # <<>> /\ HasMarker(args) /\ state.repl
                         /\ Active.app_use_auth_token_file) THEN phase
                    ELSE IF handle_zabbix_api_exception(state, heap, client, environ, fs,
                                args, typed, remote1, remote2, os_ok, unwritable).exc
                            = "SystemExit"
                    THEN AUTHENTICATED ELSE CONFIGURING)

InitState ==
    /\ config \in {Config(t, alice, p, k, FALSE, f, AUTH_FILE) :
                     t \in {None, tokCfg}, p \in {None, pwCfg}, k \in BOOLEAN,
                     f \in {AUTH_TOKEN_FILE, CUSTOM_TOKEN_FILE}}
    /\ environ = [username |-> None, password |-> None]
    /\ fs \in {Files(<<AUTH_TOKEN_FILE, AUTH_TOKEN_FILE_LEGACY, CUSTOM_TOKEN_FILE>>, <<t, l, c>>) :
                 t \in {NoFile, File(Mode600, Format(alice, tok123))},
                 l \in {NoFile, File(Mode600, Format(bob, tok456))},
                 c \in {NoFile, File(Mode600, Format(alice, tok789))}}
    /\ client = NewClient
    /\ op = Start
    /\ out = Returns(None, <<>>)
    /\ state \in {NewState(repl) : repl \in BOOLEAN}
    /\ heap = NoObjects
    /\ phase = UNCONFIGURED

NextState ==
    \/ Configure
    \/ AccessClient
    \/ AccessConfig
    \/ Command
    \/ RevertConfigOverrides
    \/ Logout
    \/ HandleException

SpecState == InitState /\ [][NextState]_vars

-----------------------------------------------------------------------------
(* What the State guarantees *)

\* C12: as long as configure has not run, a read of State.client or State.config
\* raises the RuntimeError and returns nothing; once a configure has completed,
\* State.client returns the stored client and State.config the stored Config object.
C12_AccessorsNeedConfigure ==
    /\ (op.name \in {"State.client", "State.config"} /\ phase = UNCONFIGURED) =>
           (out.exc = "RuntimeError" /\ out.ret = None)
    /\ (op.name = "State.client" /\ phase = AUTHENTICATED) =>
           (out.exc = "" /\ out.ret = client /\ state._client)
    /\ (op.name = "State.config" /\ phase = AUTHENTICATED) =>
           (out.exc = "" /\ out.ret = state._config /\ heap[out.ret] # Free)

\* State.client is read before configure and raises
C12_Witness ==
    /\ op.name = "State.client"
    /\ phase = UNCONFIGURED
    /\ out.exc = "RuntimeError"

\* a step of revert_config_overrides() in REPL mode with a configuration loaded
Reverts ==
    /\ op'.name = "revert_config_overrides"
    /\ state.repl
    /\ is_config_loaded(state)

\* C13: in REPL mode with a configuration loaded, the first revert_config_overrides()
\* stores as baseline a copy equal to the active configuration and leaves the
\* active one as it is; every later call makes active a copy equal to the
\* baseline, whatever the active configuration had become; and no step of the
\* program changes a stored baseline, which is never the active object itself.
C13_RevertRestoresBaseline ==
    [][/\ (Reverts /\ state._config_repl_original = NoRef) =>
              /\ state'._config_repl_original # NoRef
              /\ heap'[state'._config_repl_original] = Active
              /\ state'._config = state._config /\ Active' = Active
       /\ (Reverts /\ state._config_repl_original # NoRef) =>
              Active' = Baseline
       /\ state._config_repl_original # NoRef =>
              /\ state'._config_repl_original = state._config_repl_original
              /\ Baseline' = Baseline
              /\ state'._config # state'._config_repl_original]_vars

\* a revert found the output format json, which a command had set after the
\* baseline was taken, and made the baseline's table active again
C13_Witness ==
    /\ op.name = "revert_config_overrides"
    /\ state.repl
    /\ op.found # Free
    /\ op.found.app_output_format = "json"
    /\ state._config_repl_original # NoRef
    /\ Baseline.app_output_format = "table"
    /\ Active = Baseline

\* C14: in REPL mode the active configuration after every revert_config_overrides()
\* equals the configuration that the REPL was entered with.
C14_RevertRestoresEntrySnapshot ==
    (op.name = "revert_config_overrides" /\ state.repl /\ is_config_loaded(state)) =>
        Active = config

\* a step of logout() in a State that has a configuration and a client
LogsOut ==
    /\ op'.name = "logout"
    /\ is_config_loaded(state)
    /\ is_client_loaded(state)

\* C15: with token-file mode enabled, logout() makes no remote call, writes no
\* file and does not exit with an error: client and files are as before.
C15_LogoutKeepsSession ==
    [][(LogsOut /\ Active.app_use_auth_token_file) =>
           /\ out'.trace = <<>>
           /\ out'.exc = ""
           /\ client' = client
           /\ fs' = fs]_vars

\* logout() after a login in token-file mode: the session and the token file
\* that login() wrote are still there
C15_Witness ==
    /\ op.name = "logout"
    /\ op.was = AUTHENTICATED
    /\ Active.app_use_auth_token_file
    /\ Truthy(client.auth)
    /\ fs[AUTH_TOKEN_FILE].exists
    /\ fs[AUTH_TOKEN_FILE].text = Format(alice, client.auth)
    /\ out.trace = <<>>

\* the two paths that clear_auth_token_file() knows without a configuration
KnownTokenPaths == {AUTH_TOKEN_FILE, AUTH_TOKEN_FILE_LEGACY}

\* the path holds a file that the OS lets the process write
Clearable(p) == fs[p].exists /\ p \notin op'.unwritable

\* C16: with token-file mode disabled and a client configured, logout() first
\* calls the remote logout, once; when that call succeeds it then empties the
\* file at the canonical and at the legacy path, each that exists and can be
\* written; a path without a file is passed over, no file is made there, no
\* error is reported for it and the other path is cleared all the same.
C16_LogoutClearsKnownPaths ==
    [][(LogsOut /\ ~Active.app_use_auth_token_file) =>
           /\ out'.trace # <<>>
           /\ Head(out'.trace).ev = LOGOUT
           /\ Count(out'.trace, LOGOUT) = 1
           /\ op'.remote_ok =>
                  /\ \A p \in KnownTokenPaths :
                         /\ Clearable(p) =>
                                /\ fs'[p] = [fs[p] EXCEPT !.text = <<>>]
                                /\ \E i \in 2..Len(out'.trace) :
                                       out'.trace[i] = Ev("write_text", p, <<>>, <<>>)
                         /\ ~fs[p].exists =>
                                /\ ~fs'[p].exists
                                /\ \A i \in 1..Len(out'.trace) : out'.trace[i].p # p
                  /\ (\A p \in KnownTokenPaths : ~fs[p].exists \/ Clearable(p)) =>
                         (out'.exc = "" /\ Count(out'.trace, "error") = 0)
                  /\ fs'[CUSTOM_TOKEN_FILE] = fs[CUSTOM_TOKEN_FILE]]_vars

\* logout() found no file at the canonical path and emptied the legacy file
C16_Witness ==
    /\ op.name = "logout"
    /\ op.was = AUTHENTICATED
    /\ op.remote_ok
    /\ ~Active.app_use_auth_token_file
    /\ ~fs[AUTH_TOKEN_FILE].exists
    /\ fs[AUTH_TOKEN_FILE_LEGACY] = File(Mode600, <<>>)
    /\ out.exc = ""
    /\ out.trace = <<Ev(LOGOUT, "ok", session1, <<>>),
                     Ev("write_text", AUTH_TOKEN_FILE_LEGACY, <<>>, <<>>)>>

\* C17: in logout() with token-file mode disabled, a failed remote logout and a
\* token file that exists and cannot be cleared each end in the fatal error exit.
C17_LogoutFailuresAreFatal ==
    (/\ op.name = "logout"
     /\ op.was = AUTHENTICATED
     /\ ~Active.app_use_auth_token_file
     /\ (~op.remote_ok \/ Count(out.trace, "error") > 0)) =>
        out.exc = "SystemExit"

\* C18: logout() does nothing (no remote call, no file written, no error exit)
\* when configure was never called and when configure raised before it finished.
C18_LogoutNoOpUnlessConfigured ==
    (op.name = "logout" /\ op.was \in {UNCONFIGURED, CONFIGURING}) =>
        (out.trace = <<>> /\ out.exc = "")

-----------------------------------------------------------------------------
(* The handler of API exceptions *)

\* the positions in trace of the events named ev with message or path p
Positions(trace, ev, p) == {i \in 1..Len(trace) : trace[i].ev = ev /\ trace[i].p = p}

\* the positions at which a token file is emptied
Clearings(trace) ==
    {i \in 1..Len(trace) : trace[i].ev = "write_text" /\ trace[i].x = <<>>}

\* the handled exception asks for a new login and the token file is in use
StaleToken ==
    /\ op.name = "handle_exception"
    /\ op.marker
    /\ is_config_loaded(state)
    /\ Active.app_use_auth_token_file

\* C20: when an API exception with the re-login marker is handled with the
\* configuration loaded and token-file mode on, the token files are emptied
\* first, then configure runs (in REPL mode, and only then), then the process
\* exits with the instruction to run the command again, and that is the end
\* of the handling; without the marker or with token-file mode off the handler
\* empties no file.
C20_StaleTokenHandling ==
    /\ StaleToken =>
           /\ out.exc = "SystemExit"
           /\ out.trace[Len(out.trace)] = Ev("exit_err", EXPIRED, <<>>, <<>>)
           /\ Cardinality(Positions(out.trace, "configure", "")) = IF state.repl THEN 1 ELSE 0
           /\ \A i \in Clearings(out.trace), j \in Positions(out.trace, "configure", "") : i < j
           /\ \A p \in {AUTH_TOKEN_FILE, AUTH_TOKEN_FILE_LEGACY, Active.app_auth_token_file} :
                  (fs[p].exists /\ p \notin op.unwritable) =>
                      (fs[p].text = <<>> \/ \E i \in Clearings(out.trace) : out.trace[i].p = p)
    /\ (op.name = "handle_exception" /\ ~StaleToken) => Clearings(out.trace) = {}

\* C21: handle_exception of an exception that has a handler (a ZabbixAPIException
\* with any arguments, in one-shot and in REPL mode) never returns and lets no
\* other exception out: it ends with the exit of the process (SystemExit, code
\* 1) after a message.
C21_HandlerAlwaysExits ==
    op.name = "handle_exception" =>
        /\ out.exc = "SystemExit"
        /\ out.trace # <<>>
        /\ out.trace[Len(out.trace)].ev = "exit_err"

\* C22: while the process runs, whenever the State holds a client
\* (is_client_loaded), that client carries the session token of a successful
\* login.
C22_ClientHeldIsAuthenticated ==
    (Running /\ is_client_loaded(state)) => Truthy(client.auth)

\* C25: after configure (completed or raised) and logout(), a session that a
\* successful login created and that logout() did not end on the server has its
\* token stored in the auth token file.
C25_NoSessionLeaked ==
    (/\ op.name = "logout"
     /\ op.was \in {CONFIGURING, AUTHENTICATED}
     /\ Truthy(client.auth)
     /\ Count(out.trace, LOGOUT) = 0) =>
        /\ fs[Active.app_auth_token_file].exists
        /\ \E u \in {alice, carol} :
               fs[Active.app_auth_token_file].text = Format(u, client.auth)

\* C28: in REPL mode, once the handler of the stale token has set
\* config.api.auth_token of the active configuration to None, no later step
\* (no revert_config_overrides() in particular) puts the token back.
C28_ClearedTokenStaysCleared ==
    [][(/\ state.repl
        /\ phase = AUTHENTICATED
        /\ is_config_loaded(state)
        /\ config.api_auth_token # None
        /\ Active.api_auth_token = None) => Active'.api_auth_token = None]_vars

\* C27: once the handler of the stale token has told the user to run the command
\* again, no token file path that login searches still holds the token it held:
\* every such file that has content was written anew during the handling.
C27_StaleTokenGone ==
    (/\ StaleToken
     /\ out.exc = "SystemExit"
     /\ out.trace[Len(out.trace)] = Ev("exit_err", EXPIRED, <<>>, <<>>)) =>
        \A i \in 1..Len(get_auth_token_file_paths(Active)) :
            (/\ fs[get_auth_token_file_paths(Active)[i]].exists
             /\ fs[get_auth_token_file_paths(Active)[i]].text # <<>>) =>
                \E j \in 1..Len(out.trace) :
                    /\ out.trace[j].ev = "write_text"
                    /\ out.trace[j].p = get_auth_token_file_paths(Active)[i]

-----------------------------------------------------------------------------
(* SpecHandlers: an exception of any type reaches the handler table *)

\* the number of parents that a new type declares
MaxBases == 2

\* the declared parents of a type, as a set
Parents(type_, bases) == {Bases(type_, bases)[i] : i \in 1..Len(Bases(type_, bases))}

\* every type above the type
RECURSIVE Ancestors(_, _)
Ancestors(type_, bases) ==
    Parents(type_, bases) \cup UNION {Ancestors(p, bases) : p \in Parents(type_, bases)}

\* the parents that Python accepts in the declaration of an exception class: no
\* type twice, no type in front of one of its own descendants, an exception
\* among them
ValidBases ==
    {b \in UNION {[1..n -> KnownTypes] : n \in 1..MaxBases} :
        /\ \A i, j \in 1..Len(b) : i < j => (b[i] # b[j] /\ b[i] \notin Ancestors(b[j], <<>>))
        /\ \E i \in 1..Len(b) : "Exception" \in {b[i]} \cup Ancestors(b[i], <<>>)}

\* an exception of the type was raised
Raised(type_, bases) == [name |-> "raised", type |-> type_, bases |-> bases]

\* a call of get_exception_handler(type(e))
GetExceptionHandler ==
    /\ op.name = "raised"
    /\ op' = [op EXCEPT !.name = "get_exception_handler"]
    /\ out' = Returns(get_exception_handler(op.type, op.bases), <<>>)
    /\ UNCHANGED <<config, environ, fs, client, state, heap, phase>>

\* a call of handle_exception(e)
HandleAnyException ==
    /\ op.name = "raised"
    /\ op' = [op EXCEPT !.name = "handle_exception"]
    /\ out' = handle_exception(op.type, op.bases)
    /\ UNCHANGED <<config, environ, fs, client, state, heap, phase>>

InitHandlers ==
    /\ config = Config(None, alice, pwCfg, FALSE, FALSE, AUTH_TOKEN_FILE, AUTH_FILE)
    /\ environ = [username |-> None, password |-> None]
    /\ fs = [p \in Paths |-> NoFile]
    /\ client = NewClient
    /\ op \in {Raised(t, <<>>) : t \in {k \in KnownTypes : "Exception" \in {k} \cup Ancestors(k, <<>>)}}
              \cup {Raised(NewType, b) : b \in ValidBases}
    /\ out = Returns(None, <<>>)
    /\ state = NewState(FALSE)
    /\ heap = NoObjects
    /\ phase = UNCONFIGURED

NextHandlers ==
    \/ GetExceptionHandler
    \/ HandleAnyException

SpecHandlers == InitHandlers /\ [][NextHandlers]_vars

\* the type, then for each declared parent in turn the parent with all that lies
\* above it, before the next parent
RECURSIVE DepthFirst(_, _)
RECURSIVE DepthFirstFrom(_, _, _)
DepthFirstFrom(parents, i, bases) ==
    IF i > Len(parents) THEN <<>>
    ELSE DepthFirst(parents[i], bases) \o DepthFirstFrom(parents, i + 1, bases)

DepthFirst(type_, bases) == <<type_>> \o DepthFirstFrom(Bases(type_, bases), 1, bases)

\* the types of the queue, then their parents, then the parents of those
RECURSIVE BreadthFirst(_, _)
BreadthFirst(queue, bases) ==
    IF queue = <<>> THEN <<>>
    ELSE <<Head(queue)>> \o BreadthFirst(Tail(queue) \o Bases(Head(queue), bases), bases)

\* C19 as stated: get_exception_handler(T) returns the handler registered for T
\* itself, else that of the first registered type met when T's declared parents
\* are walked breadth-first, else none; and with none handle_exception raises
\* the exception again and runs no handler.
C19_BreadthFirstResolution ==
    /\ op.name = "get_exception_handler" =>
           out.ret = FirstRegistered(BreadthFirst(<<op.type>>, op.bases))
    /\ op.name = "handle_exception" =>
           IF FirstRegistered(BreadthFirst(<<op.type>>, op.bases)) = NoHandler
           THEN out.exc = op.type /\ out.trace = <<>>
           ELSE out.exc = "SystemExit"

\* C19 as amended: get_exception_handler(T) returns the handler registered for T
\* itself, else that of the first registered type met when T's declared parents
\* are walked depth-first in the order of declaration (a parent and all its
\* ancestors before the next parent), else none; and with none handle_exception
\* raises the exception again and runs no handler.
C19_DepthFirstResolution ==
    /\ op.name = "get_exception_handler" =>
           out.ret = FirstRegistered(DepthFirst(op.type, op.bases))
    /\ op.name = "handle_exception" =>
           IF FirstRegistered(DepthFirst(op.type, op.bases)) = NoHandler
           THEN out.exc = op.type /\ out.trace = <<>>
           ELSE /\ out.exc = "SystemExit"
                /\ out.trace = <<Ev(FirstRegistered(DepthFirst(op.type, op.bases)), "",
                                    <<>>, <<>>)>>

\* a type declared with the parents ZabbixNotFoundError and ConfigError gets the
\* handler of the first parent's parent, not the one registered for the second
C19_Witness ==
    /\ op.name = "get_exception_handler"
    /\ op.type = NewType
    /\ op.bases = <<"ZabbixNotFoundError", "ConfigError">>
    /\ out.ret = "handle_zabbix_api_exception"
    /\ Registered("ConfigError") = "handle_notraceback"

-----------------------------------------------------------------------------
(* SpecConcurrent: two invocations of the program write the same token file *)

\* the two processes
Invocations == {"first", "second"}

\* a process about to call write_auth_token_file(username, auth_token, file)
Writer(username, auth_token) ==
    [name |-> "write_auth_token_file", pc |-> "exists", username |-> username,
     token |-> auth_token, exc |-> ""]

\* open(file, "w"): the file is made if there is none, and cut to length 0
open_truncate(files, file) ==
    [files EXCEPT ![file] = File(IF @.exists THEN @.st_mode ELSE Mode644, <<>>)]

\* write(fd, data) through a descriptor at offset 0: the bytes of data replace
\* the first bytes of the file and what lies beyond them stays
write_at_start(files, file, data) ==
    [files EXCEPT ![file].text = data \o SubSeq(@, Len(data) + 1, Len(@))]

\* the process moves on to the step at
Goto(i, at) == op' = [op EXCEPT ![i].pc = at]

\* `if not file.exists()` ... `elif` ...
TestExists(i) ==
    /\ op[i].pc = "exists"
    /\ Goto(i, IF fs[AUTH_TOKEN_FILE].exists THEN "permissions" ELSE "touch")
    /\ UNCHANGED <<config, environ, fs, client, out, state, heap, phase>>

\* file.touch(mode=SECURE_PERMISSIONS): exist_ok is true, a file that came into
\* being since the test is left as it is
Touch(i) ==
    /\ op[i].pc = "touch"
    /\ fs' = IF fs[AUTH_TOKEN_FILE].exists THEN fs ELSE touch(fs, AUTH_TOKEN_FILE, TRUE).fs
    /\ Goto(i, "write_text")
    /\ UNCHANGED <<config, environ, client, out, state, heap, phase>>

\* `elif not file_has_secure_permissions(file)`
TestPermissions(i) ==
    /\ op[i].pc = "permissions"
    /\ Goto(i, IF file_has_secure_permissions(fs[AUTH_TOKEN_FILE]) THEN "write_text"
                ELSE "chmod")
    /\ UNCHANGED <<config, environ, fs, client, out, state, heap, phase>>

\* file.chmod(SECURE_PERMISSIONS)
Chmod(i) ==
    /\ op[i].pc = "chmod"
    /\ fs' = chmod(fs, AUTH_TOKEN_FILE, TRUE).fs
    /\ Goto(i, "write_text")
    /\ UNCHANGED <<config, environ, client, out, state, heap, phase>>

\* file.write_text(contents), first half: the file is opened for writing
OpenTruncate(i) ==
    /\ op[i].pc = "write_text"
    /\ fs' = open_truncate(fs, AUTH_TOKEN_FILE)
    /\ Goto(i, "write")
    /\ UNCHANGED <<config, environ, client, out, state, heap, phase>>

\* file.write_text(contents), second half: the contents are written and the file
\* closed; write_auth_token_file returns
WriteAndClose(i) ==
    /\ op[i].pc = "write"
    /\ fs' = write_at_start(fs, AUTH_TOKEN_FILE, Format(op[i].username, op[i].token))
    /\ out' = [out EXCEPT !.trace = Append(@, Ev("write", AUTH_TOKEN_FILE,
                                                  Format(op[i].username, op[i].token), i))]
    /\ Goto(i, "done")
    /\ UNCHANGED <<config, environ, client, state, heap, phase>>

InitConcurrent ==
    /\ config = Config(None, alice, pwCfg, TRUE, FALSE, AUTH_TOKEN_FILE, AUTH_FILE)
    /\ environ = [username |-> None, password |-> None]
    /\ fs \in {Files(<<AUTH_TOKEN_FILE>>, <<f>>) :
                  f \in {NoFile, File(Mode600, Format(alice, tok123)),
                         File(Mode644, Format(alice, tok123))}}
    /\ client = NewClient
    /\ op \in [Invocations -> {Writer(u, t) : u \in {alice, bob}, t \in {session1, tokCfg}}]
    /\ out = Returns(None, <<>>)
    /\ state = NewState(FALSE)
    /\ heap = NoObjects
    /\ phase = UNCONFIGURED

NextConcurrent ==
    \E i \in Invocations :
        \/ TestExists(i)
        \/ Touch(i)
        \/ TestPermissions(i)
        \/ Chmod(i)
        \/ OpenTruncate(i)
        \/ WriteAndClose(i)

SpecConcurrent == InitConcurrent /\ [][NextConcurrent]_vars

\* C23: when two invocations have written the same token file concurrently and
\* both are done, neither has failed, and the file holds exactly the complete
\* `username::token` line of the one that wrote last, never a mixture.
C23_LastWriterWins ==
    (\A i \in Invocations : op[i].pc = "done") =>
        /\ \A i \in Invocations : op[i].exc = ""
        /\ fs[AUTH_TOKEN_FILE].text = out.trace[Len(out.trace)].x

-----------------------------------------------------------------------------
(* create_host (src/zabbix_cli/commands/host.py) *)

DEFAULT_HOST_STATUS == <<"0">>

DEFAULT_PROXY == <<".", "+">>

\* the first position of the separator in the text
FirstIndex(s, sep) ==
    CHOOSE i \in 1..Len(s) : s[i] = sep /\ \A j \in 1..(i - 1) : s[j] # sep

\* str.split(sep)
RECURSIVE Split(_, _)
Split(s, sep) ==
    IF \A i \in 1..Len(s) : s[i] # sep THEN <<s>>
    ELSE <<SubSeq(s, 1, FirstIndex(s, sep) - 1)>>
         \o Split(SubSeq(s, FirstIndex(s, sep) + 1, Len(s)), sep)

\* whether int(s) returns: digits, after an optional sign, blanks around them cut
IsInt(s) ==
    /\ Strip(s) # <<>>
    /\ \A i \in 1..Len(Strip(s)) :
           \/ Strip(s)[i] \in {"0", "1", "2", "3", "4", "5", "6", "7", "8", "9"}
           \/ i = 1 /\ Len(Strip(s)) > 1 /\ Strip(s)[i] \in {"+", "-"}

\* client.get_hostgroup_id(hg): the id of the group of that name on the server
get_hostgroup_id(hg, server) ==
    IF hg \in server.groups
    THEN Returns(<<"#">> \o hg, <<Ev("get_hostgroup_id", "ok", hg, <<>>)>>)
    ELSE Raises("ZabbixNotFoundError", <<Ev("get_hostgroup_id", "ZabbixNotFoundError", hg, <<>>)>>)

\* client.get_random_proxy(pattern=proxy)
get_random_proxy(pattern, server) ==
    IF server.proxy
    THEN Returns(<<"p", "1">>, <<Ev("get_random_proxy", "ok", pattern, <<>>)>>)
    ELSE Raises("ZabbixNotFoundError", <<Ev("get_random_proxy", "ZabbixNotFoundError", pattern, <<>>)>>)

\* client.get_host(hostname_or_ip): server.host is the exception the lookup ends
\* with, or "" for a host found
get_host(hostname_or_ip, server) ==
    IF server.host = ""
    THEN Returns(hostname_or_ip, <<Ev("get_host", "found", hostname_or_ip, <<>>)>>)
    ELSE Raises(server.host, <<Ev("get_host", server.host, hostname_or_ip, <<>>)>>)

\* hostgroup_ids.append(app.state.client.get_hostgroup_id(hg)), g being what the
\* call gave
Appended(r, g) ==
    IF g.exc # "" THEN [r EXCEPT !.exc = g.exc, !.trace = @ \o g.trace]
    ELSE [r EXCEPT !.trace = @ \o g.trace, !.ids = Append(@, g.ret)]

\* `for hg in names: hostgroup_ids.append(...)`, from names[i] on
RECURSIVE AppendLoop(_, _, _, _)
AppendLoop(names, i, server, r) ==
    IF i > Len(names) \/ r.exc # "" THEN r
    ELSE AppendLoop(names, i + 1, server, Appended(r, get_hostgroup_id(names[i], server)))

\* "Determine host group IDs": the default groups unless switched off, then the
\* groups given
hostgroup_ids(hostgroups, no_default_hostgroup, default_hostgroups, server) ==
    AppendLoop(IF Truthy(hostgroups) THEN Split(Strip(hostgroups), ",") ELSE <<>>, 1, server,
        AppendLoop(IF ~no_default_hostgroup /\ default_hostgroups # <<>>
                   THEN default_hostgroups ELSE <<>>, 1, server,
                   [exc |-> "", trace |-> <<>>, ids |-> <<>>]))

\* create_host once get_host has given h and the host was found not to matter
HostChecked_any(q, ids, proxy_id, trace, h) ==
    IF h.exc # "" /\ h.exc # "ZabbixNotFoundError"
    THEN Raises("ZabbixCLIError", trace \o h.trace)
    ELSE IF ~IsInt(q.status) THEN Raises("ValueError", trace \o h.trace)
    ELSE Returns(None, trace \o h.trace
                       \o <<Ev("host.create", IF Truthy(q.name) THEN q.name
                                              ELSE q.hostname_or_ip, ids, proxy_id),
                            Ev("render_result", "", <<>>, <<>>)>>)

\* create_host once get_host has given h: the try around it, then the query and
\* host.create
HostChecked(q, ids, proxy_id, trace, h) ==
    IF h.exc = "" \/ h.exc # "ZabbixNotFoundError"
    THEN Raises("ZabbixCLIError", trace \o h.trace)
    ELSE IF ~IsInt(q.status) THEN Raises("ValueError", trace \o h.trace)
    ELSE Returns(None, trace \o h.trace
                       \o <<Ev("host.create", IF Truthy(q.name) THEN q.name
                                              ELSE q.hostname_or_ip, ids, proxy_id),
                            Ev("render_result", "", <<>>, <<>>)>>)

\* create_host once get_random_proxy has given x: no proxy found is no proxy
ProxyFound(q, server, ids, trace, x) ==
    IF x.exc # "" /\ x.exc # "ZabbixNotFoundError" THEN Raises(x.exc, trace \o x.trace)
    ELSE HostChecked(q, ids, IF x.exc = "" THEN x.ret ELSE None, trace \o x.trace,
                     get_host(q.hostname_or_ip, server))

\* create_host once the host group ids are determined: r holds them
GroupsDetermined(q, server, r) ==
    IF r.exc # "" THEN Raises(r.exc, r.trace)
    ELSE IF r.ids = <<>> THEN Raises("ZabbixCLIError", r.trace)
    ELSE ProxyFound(q, server, r.ids, r.trace, get_random_proxy(q.proxy, server))

\* create_host from "Determine host group IDs" on, q being the parameters
Determined(q, no_default_hostgroup, default_hostgroups, server) ==
    GroupsDetermined(q, server,
        hostgroup_ids(q.hostgroups, no_default_hostgroup, default_hostgroups, server))

\* the parameters after `if not (hostname_or_ip and hostgroups and proxy and
\* status)`: each one missing is asked for
Asked(q, typed) ==
    IF Truthy(q.hostname_or_ip) /\ Truthy(q.hostgroups) /\ Truthy(q.proxy) /\ Truthy(q.status)
    THEN q
    ELSE [q EXCEPT
            !.hostname_or_ip = IF Truthy(@) THEN @ ELSE typed.hostname_or_ip,
            !.hostgroups = IF Truthy(@) THEN @ ELSE str_prompt(<<>>, typed.hostgroups),
            !.proxy = IF Truthy(@) THEN @ ELSE str_prompt(DEFAULT_PROXY, typed.proxy),
            !.status = IF Truthy(@) THEN @ ELSE str_prompt(DEFAULT_HOST_STATUS, typed.status)]

\* the parameters after `if args:` with four arguments
Positional(q, args) ==
    [q EXCEPT !.hostname_or_ip = args[1], !.hostgroups = args[2], !.proxy = args[3],
              !.status = args[4]]

\* create_host(ctx, args, ...): q holds the options, call the rest of the inputs
create_host(args, q, call) ==
    IF args # <<>> /\ Len(args) # 4 THEN Raises("ZabbixCLIError", <<>>)
    ELSE Determined(Asked(IF args # <<>> THEN Positional(q, args) ELSE q, call.typed),
                    call.no_default_hostgroup, call.default_hostgroups, call.server)

-----------------------------------------------------------------------------
(* SpecCreateHost: one call of create_host *)

host1 == <<"w", "e", "b">>

g0 == <<"A", "l", "l">>

g1 == <<"g", "1">>

g2 == <<"g", "2">>

\* the options of the command line
Options ==
    [hostname_or_ip : {None, host1},
     hostgroups : {None, g1, g1 \o <<",">> \o g2},
     proxy : {None, DEFAULT_PROXY},
     status : {None, <<"0">>, <<"x">>},
     name : {None}]

\* the positional arguments: none, too few, four
Positionals == {<<>>, <<host1>>, <<host1, g2, DEFAULT_PROXY, <<"1">>>>}

\* the configuration, what the user types, and the server
Calls ==
    [no_default_hostgroup : BOOLEAN,
     default_hostgroups : {<<>>, <<g0>>},
     typed : [hostname_or_ip : {host1}, hostgroups : {<<>>, g1}, proxy : {<<>>},
              status : {<<>>}],
     server : [groups : {{}, {g0}, {g0, g1}, {g0, g1, g2}},
               host : {"", "ZabbixNotFoundError", "ZabbixAPIException", "ConnectError"},
               proxy : BOOLEAN]]

\* the command runs
CreateHost ==
    /\ op.name = "create_host called"
    /\ op' = [op EXCEPT !.name = "create_host"]
    /\ out' = create_host(op.args, op.options, op.call)
    /\ UNCHANGED <<config, environ, fs, client, state, heap, phase>>

InitCreateHost ==
    /\ config = Config(None, alice, pwCfg, FALSE, FALSE, AUTH_TOKEN_FILE, AUTH_FILE)
    /\ environ = [username |-> None, password |-> None]
    /\ fs = [p \in Paths |-> NoFile]
    /\ client = [auth |-> session1]
    /\ op \in [name : {"create_host called"}, args : Positionals, options : Options,
               call : Calls]
    /\ out = Returns(None, <<>>)
    /\ state = NewState(FALSE)
    /\ heap = NoObjects
    /\ phase = AUTHENTICATED

NextCreateHost == CreateHost

SpecCreateHost == InitCreateHost /\ [][NextCreateHost]_vars

\* the type is ZabbixCLIError or declared below it
IsZabbixCLIError(type_) ==
    type_ \in KnownTypes /\ "ZabbixCLIError" \in {type_} \cup Ancestors(type_, <<>>)

\* the positions in the trace of the events named ev that ended with p
Ended(trace, ev, p) == {i \in 1..Len(trace) : trace[i].ev = ev /\ trace[i].p = p}

\* C24: create_host calls host.create only after the lookup of the host raised
\* not-found and at least one host group id was resolved; when the lookup finds
\* the host or fails with another error, or when no host group id was resolved
\* (none configured or given, or none found), the command raises ZabbixCLIError
\* and makes no create call.
C24_CreateOnlyIfAbsentAndGrouped ==
    op.name = "create_host" =>
        /\ \A c \in {i \in 1..Len(out.trace) : out.trace[i].ev = "host.create"} :
                   /\ \E h \in Ended(out.trace, "get_host", "ZabbixNotFoundError") : h < c
                   /\ \E g \in Ended(out.trace, "get_hostgroup_id", "ok") : g < c
                   /\ out.trace[c].x # <<>>
        /\ (\/ Ended(out.trace, "get_host", "found") # {}
            \/ Ended(out.trace, "get_host", "ZabbixAPIException") # {}
            \/ Ended(out.trace, "get_host", "ConnectError") # {}
            \/ Ended(out.trace, "get_hostgroup_id", "ok") = {}) =>
               /\ IsZabbixCLIError(out.exc)
               /\ Count(out.trace, "host.create") = 0

\* a host that the lookup did not find was created in its groups
C24_Witness ==
    /\ op.name = "create_host"
    /\ op.call.server.host = "ZabbixNotFoundError"
    /\ out.exc = ""
    /\ Count(out.trace, "host.create") = 1
    /\ Count(out.trace, "get_hostgroup_id") = 2

-----------------------------------------------------------------------------
(* IntChoice and APIIntEnum (src/zabbix_cli/pyzabbix/enums.py) *)

\* the values of Python that reach the enums: an int, a str
PyInt(i) == [type |-> "int", int |-> i, str |-> <<>>]

PyStr(s) == [type |-> "str", int |-> 0, str |-> s]

DIGITS == <<"0", "1", "2", "3", "4", "5", "6", "7", "8", "9">>

ASCII_UPPERCASE == <<"A", "B", "C", "D", "E", "F", "G", "H", "I", "J", "K", "L", "M", "N", "O", "P", "Q", "R", "S", "T", "U", "V", "W", "X", "Y", "Z">>

ASCII_LOWERCASE == <<"a", "b", "c", "d", "e", "f", "g", "h", "i", "j", "k", "l", "m", "n", "o", "p", "q", "r", "s", "t", "u", "v", "w", "x", "y", "z">>

\* str(n) of an int that is not negative
RECURSIVE Decimal(_)
Decimal(n) ==
    IF n < 10 THEN <<DIGITS[n + 1]>> ELSE Decimal(n \div 10) \o <<DIGITS[(n % 10) + 1]>>

\* str(value)
str(value) ==
    IF value.type = "str" THEN value.str
    ELSE IF value.int < 0 THEN <<"-">> \o Decimal(0 - value.int)
    ELSE Decimal(value.int)

\* the position of the character in the letters, 0 for none
IndexIn(c, letters) ==
    IF \E i \in 1..Len(letters) : letters[i] = c
    THEN CHOOSE i \in 1..Len(letters) : letters[i] = c
    ELSE 0

\* c.lower() and c.upper() of one character
Lower(c) ==
    IF IndexIn(c, ASCII_UPPERCASE) = 0 THEN c ELSE ASCII_LOWERCASE[IndexIn(c, ASCII_UPPERCASE)]

Upper(c) ==
    IF IndexIn(c, ASCII_LOWERCASE) = 0 THEN c ELSE ASCII_UPPERCASE[IndexIn(c, ASCII_LOWERCASE)]

\* s.casefold()
casefold(s) == [i \in 1..Len(s) |-> Lower(s[i])]

\* s.islower(): a cased character, and no cased character in upper case
islower(s) ==
    /\ \E i \in 1..Len(s) : IndexIn(s[i], ASCII_LOWERCASE) # 0
    /\ \A i \in 1..Len(s) : IndexIn(s[i], ASCII_UPPERCASE) = 0

\* s.capitalize()
capitalize(s) == [i \in 1..Len(s) |-> IF i = 1 THEN Upper(s[i]) ELSE Lower(s[i])]

\* s.replace("_", " ")
replace_underscores(s) == [i \in 1..Len(s) |-> IF s[i] = "_" THEN " " ELSE s[i]]

\* a member NAME = APIInt(value, label) of an enum class
Member(name, value, label) == [name |-> name, value |-> value, label |-> label]

\* the enum classes looked at, each the members in the order of definition
AckStatus == <<Member(<<"N", "O">>, 0, <<"n", "o">>), Member(<<"Y", "E", "S">>, 1, <<"y", "e", "s">>)>>

HostgroupType ==
    <<Member(<<"N", "O", "T", "_", "I", "N", "T", "E", "R", "N", "A", "L">>, 0, <<"N", "o", "t", " ", "i", "n", "t", "e", "r", "n", "a", "l">>),
      Member(<<"I", "N", "T", "E", "R", "N", "A", "L">>, 1, <<"I", "n", "t", "e", "r", "n", "a", "l">>)>>

InventoryMode ==
    <<Member(<<"D", "I", "S", "A", "B", "L", "E", "D">>, 0 - 1, <<"d", "i", "s", "a", "b", "l", "e", "d">>),
      Member(<<"M", "A", "N", "U", "A", "L">>, 0, <<"m", "a", "n", "u", "a", "l">>),
      Member(<<"A", "U", "T", "O", "M", "A", "T", "I", "C">>, 1, <<"a", "u", "t", "o", "m", "a", "t", "i", "c">>)>>

MaintenanceStatus == <<Member(<<"O", "N">>, 1, <<"o", "n">>), Member(<<"O", "F", "F">>, 0, <<"o", "f", "f">>)>>

\* IntChoice.__str__, APIIntEnum.__str__: str(self.value)
Member_str(e) == str(PyInt(e.value))

\* IntChoice.choice(): self.casefold(), str(self.name).casefold()
choice(e) == casefold(e.name)

\* IntChoice.choices()
choices(cls) == [i \in 1..Len(cls) |-> Member_str(cls[i])]

\* IntChoice.all_choices()
all_choices(cls) ==
    [i \in 1..Len(cls) |-> choice(cls[i])] \o [i \in 1..Len(cls) |-> str(PyInt(cls[i].value))]

\* the test of the loop of _missing_ for the member v
MissingTest(v, value) ==
    \/ PyInt(v.value) = value
    \/ casefold(v.name) = casefold(str(value))

\* IntChoice._missing_(value): the first member that passes the test, else the error
IntChoice_missing(cls, value) ==
    IF \E i \in 1..Len(cls) : MissingTest(cls[i], value)
    THEN Returns(cls[CHOOSE i \in 1..Len(cls) :
                         /\ MissingTest(cls[i], value)
                         /\ \A j \in 1..(i - 1) : ~MissingTest(cls[j], value)], <<>>)
    ELSE Raises("ZabbixCLIError", <<>>)

\* cls(value): Enum looks the value up among the members' values, then calls
\* _missing_, whose exception it lets through
Enum_call(cls, value) ==
    IF \E i \in 1..Len(cls) : PyInt(cls[i].value) = value
    THEN Returns(cls[CHOOSE i \in 1..Len(cls) : PyInt(cls[i].value) = value], <<>>)
    ELSE IntChoice_missing(cls, value)

\* str_prompt(prompt, choices=choices, default=default): the user picks the k-th
\* of the choices offered
choice_prompt(offered, k) == offered[k]

\* IntChoice.from_prompt(), the user picking the k-th choice
from_prompt(cls, k) == Enum_call(cls, PyStr(choice_prompt(choices(cls), k)))

\* the name that string_from_value gives the member c
FormattedName(c) ==
    IF c.label # <<>> THEN c.label
    ELSE IF islower(replace_underscores(c.name)) THEN capitalize(replace_underscores(c.name))
    ELSE replace_underscores(c.name)

\* f"{name} ({code})" if with_code, else name
WithCode(name, code, with_code) ==
    IF with_code THEN name \o <<" ", "(">> \o code \o <<")">> ELSE name

\* string_from_value once cls(value) has given r: `except ValueError` catches a
\* ValueError and no other exception
Named(r, value, default, with_code) ==
    IF r.exc = "" THEN Returns(WithCode(FormattedName(r.ret), str(PyInt(r.ret.value)), with_code), <<>>)
    ELSE IF "ValueError" \in {r.exc} \cup Ancestors(r.exc, <<>>)
    THEN Returns(WithCode(default, str(value), with_code), <<>>)
    ELSE Raises(r.exc, <<>>)

\* APIIntEnum.string_from_value(value, default, with_code)
string_from_value(cls, value, default, with_code) ==
    Named(Enum_call(cls, value), value, default, with_code)

-----------------------------------------------------------------------------
(* SpecEnums: the enum classes are called with values and with their own choices *)

\* the largest int passed to the enums
MaxValue == 3

EnumClasses == {AckStatus, HostgroupType, InventoryMode, MaintenanceStatus}

EnumValues ==
    {PyInt(i) : i \in (0 - 1)..MaxValue}
    \cup {PyStr(t) : t \in {<<"0">>, <<"1">>, <<"-", "1">>, <<"n", "o">>, <<"Y", "e", "s">>, <<"O", "N">>, <<"i", "n", "t", "e", "r", "n", "a", "l">>, <<"b", "o", "g", "u", "s">>}}

Unknown == <<"U", "n", "k", "n", "o", "w", "n">>

\* the program is about to use the class with the value
EnumUse(cls, value, with_code) ==
    [name |-> "enum", cls |-> cls, value |-> value, with_code |-> with_code, list |-> "", k |-> 0]

\* cls(value)
CallEnum ==
    /\ op.name = "enum"
    /\ op' = [op EXCEPT !.name = "cls(value)"]
    /\ out' = Enum_call(op.cls, op.value)
    /\ UNCHANGED <<config, environ, fs, client, state, heap, phase>>

\* cls(choice) for the k-th string of cls.choices()
CallWithChoice ==
    /\ op.name = "enum"
    /\ \E k \in 1..Len(choices(op.cls)) :
        /\ op' = [op EXCEPT !.name = "cls(choice)", !.list = "choices", !.k = k]
        /\ out' = Enum_call(op.cls, PyStr(choices(op.cls)[k]))
    /\ UNCHANGED <<config, environ, fs, client, state, heap, phase>>

\* cls(choice) for the k-th string of cls.all_choices()
CallWithAnyChoice ==
    /\ op.name = "enum"
    /\ \E k \in 1..Len(all_choices(op.cls)) :
        /\ op' = [op EXCEPT !.name = "cls(choice)", !.list = "all_choices", !.k = k]
        /\ out' = Enum_call(op.cls, PyStr(all_choices(op.cls)[k]))
    /\ UNCHANGED <<config, environ, fs, client, state, heap, phase>>

\* cls.from_prompt()
FromPrompt ==
    /\ op.name = "enum"
    /\ \E k \in 1..Len(choices(op.cls)) :
        /\ op' = [op EXCEPT !.name = "from_prompt", !.list = "choices", !.k = k]
        /\ out' = from_prompt(op.cls, k)
    /\ UNCHANGED <<config, environ, fs, client, state, heap, phase>>

\* cls.string_from_value(value, default, with_code)
StringFromValue ==
    /\ op.name = "enum"
    /\ op' = [op EXCEPT !.name = "string_from_value"]
    /\ out' = string_from_value(op.cls, op.value, Unknown, op.with_code)
    /\ UNCHANGED <<config, environ, fs, client, state, heap, phase>>

InitEnums ==
    /\ config = Config(None, alice, pwCfg, FALSE, FALSE, AUTH_TOKEN_FILE, AUTH_FILE)
    /\ environ = [username |-> None, password |-> None]
    /\ fs = [p \in Paths |-> NoFile]
    /\ client = NewClient
    /\ op \in {EnumUse(cls, value, with_code) :
                 cls \in EnumClasses, value \in EnumValues, with_code \in BOOLEAN}
    /\ out = Returns(None, <<>>)
    /\ state = NewState(FALSE)
    /\ heap = NoObjects
    /\ phase = UNCONFIGURED

NextEnums ==
    \/ CallEnum
    \/ CallWithChoice
    \/ CallWithAnyChoice
    \/ FromPrompt
    \/ StringFromValue

SpecEnums == InitEnums /\ [][NextEnums]_vars

\* the member that produced the k-th string of the list
Producer(cls, list, k) == cls[((k - 1) % Len(cls)) + 1]

\* C29: every string of choices() and of all_choices() is accepted by the
\* constructor of the class and gives the member that produced it, and
\* from_prompt returns the member of the choice picked.
C29_ChoicesAreAccepted ==
    op.name \in {"cls(choice)", "from_prompt"} =>
        /\ out.exc = ""
        /\ out.ret = Producer(op.cls, op.list, op.k)

\* the value is that of a member, or case-insensitively the name of one
MatchesMember(cls, value) ==
    \E i \in 1..Len(cls) : PyInt(cls[i].value) = value \/ casefold(cls[i].name) = casefold(str(value))

\* C30: string_from_value returns the default name (followed by ` (value)` when
\* with_code is true) for a value that matches no member, instead of raising,
\* and the formatted name of the member for a value that matches one.
C30_StringFromValueNeverRaises ==
    op.name = "string_from_value" =>
        /\ out.exc = ""
        /\ ~MatchesMember(op.cls, op.value) =>
               out.ret = WithCode(Unknown, str(op.value), op.with_code)
        /\ MatchesMember(op.cls, op.value) =>
               \E i \in 1..Len(op.cls) :
                   out.ret = WithCode(op.cls[i].label, str(PyInt(op.cls[i].value)), op.with_code)

-----------------------------------------------------------------------------
(* SpecPersistence: an invocation logs in and saves its token, the next one
   looks for it *)

\* the first invocation calls login(client, config)
FirstInvocation ==
    /\ op = Start
    /\ \E typed \in Typed, remote1 \in Remotes, remote2 \in Remotes, os_ok \in BOOLEAN :
        FinishFiles(
            CalledUnderOS("login", "", typed.username, typed.password, os_ok),
            login(config, environ, fs, client, typed, remote1, remote2, os_ok))
    /\ UNCHANGED <<config, environ>>

\* the next invocation, a new process with a new client and the same
\* configuration, calls login_with_auth_token_file(); wrote is the token that the
\* first invocation saved, None if it saved none
NextInvocation ==
    /\ op.name = "login"
    /\ \E remote \in Remotes :
        FinishClient([name |-> "login_with_auth_token_file",
                      wrote |-> IF out.exc = "" THEN client.auth ELSE None],
                     login_with_auth_token_file(config, fs, NewClient, remote))
    /\ UNCHANGED <<config, environ, fs>>

InitPersistence ==
    /\ config \in {Config(None, alice, None, TRUE, i, f, AUTH_FILE) :
                     i \in BOOLEAN, f \in {AUTH_TOKEN_FILE, CUSTOM_TOKEN_FILE}}
    /\ environ = [username |-> None, password |-> None]
    /\ fs \in {Files(<<AUTH_TOKEN_FILE, AUTH_TOKEN_FILE_LEGACY, CUSTOM_TOKEN_FILE>>, <<t, l, c>>) :
                 t \in {NoFile, File(Mode600, Format(alice, tok123)),
                        File(Mode644, Format(alice, tok123))},
                 l \in {NoFile, File(Mode600, Format(bob, tok456))},
                 c \in {NoFile, File(Mode600, Format(alice, tok789))}}
    /\ client = NewClient
    /\ op = Start
    /\ out = Returns(None, <<>>)
    /\ state = NewState(FALSE)
    /\ heap = NoObjects
    /\ phase = UNCONFIGURED

NextPersistence ==
    \/ FirstInvocation
    \/ NextInvocation

SpecPersistence == InitPersistence /\ [][NextPersistence]_vars

\* C26: with token-file mode on and the configuration unchanged, the token that
\* login() saved in one invocation is the token that login_with_auth_token_file
\* of the next invocation loads and logs in with, whatever the configured path
\* and whatever the canonical and legacy default paths hold.
C26_SavedTokenIsReused ==
    (op.name = "login_with_auth_token_file" /\ op.wrote # None) =>
        \E i \in 1..Len(out.trace) :
            out.trace[i].ev = LOGIN_TOKEN /\ out.trace[i].x = op.wrote

====
